---- MODULE Spec2Model ----
(***************************************************************************)
(* A model of the statehub-server core's Module Plane.                     *)
(*                                                                         *)
(* The repository holds several revisions of the module loader and of the  *)
(* server entry point.  These specifications model them:                   *)
(*                                                                         *)
(*   SpecBoot  loadAllModules / dependencyTopologicalSort (the same code   *)
(*             in every revision of the loader);                           *)
(*   Spec      the child-process loader with several instances per module  *)
(*             (unnamed/part_005): instance supervision, register          *)
(*             messages, the HTTP route handler and its timer;             *)
(*   SpecSingle  the child-process loader with one process per module      *)
(*             (unnamed/part_004): the same, with one ChildProcess;        *)
(*   SpecVm    the in-process loader (src/modules/modloader.ts) with the   *)
(*             WebSocket hub of src/index.ts (second revision in the       *)
(*             file): load, unload, registerCommands, reply handlers;      *)
(*   SpecHub   the WebSocket hub of src/index.ts with a loaded module:     *)
(*             connections, frames with any target, delivery of replies;   *)
(*   SpecAuth  the same hub with frames that carry tokens and payload.user;*)
(*   SpecFrames  the same hub with frames that carry any command;          *)
(*   SpecMpc   inter-module messages of the child-process loader;          *)
(*   SpecRegistry  repeated register messages and dispatch                 *)
(*             (unnamed/part_005);                                         *)
(*   SpecSelect  getModuleInstance over fixed instance lists               *)
(*             (unnamed/part_005);                                         *)
(*   SpecLoad  loadAllModules with any configured instance counts          *)
(*             (unnamed/part_005);                                         *)
(*   SpecScan  loadAllModules of the in-process loader from the scan of    *)
(*             the modules directory on;                                   *)
(*   SpecApi   POST /auth/verify and grantPermissions over the database;   *)
(*   SpecQuery  databaseQuery messages of module instances                 *)
(*             (unnamed/part_005);                                         *)
(*   SpecPrefix  instance cleanup over a registry with the commands of     *)
(*             other modules (unnamed/part_005);                           *)
(*   SpecAccount  POST /auth/register, /auth/login, /auth/logout and       *)
(*             /auth/verify over the users table;                          *)
(*   SpecGrant  POST /users/grant and /users/ungrant over userPermissions. *)
(*                                                                         *)
(* Every specification leaves the variables of the others unchanged.       *)
(***************************************************************************)
EXTENDS Integers, Sequences, FiniteSets, TLC

VARIABLES
  \* ---- boot (loadAllModules) ----
  pc,                 \* "init" | "running" | "exited": the core process
  exitCode,           \* code handed to process.exit, 0 while none
  exitError,          \* the error logged right before process.exit
  manifests,          \* manifests: name -> [dependencies, multiInstanceSpawning]
  loadBalancingConfig,\* loadBalancingConfig.loadBalancing: name -> count, 0 when absent
  sorted,             \* result of dependencyTopologicalSort
  skipped,            \* result of dependencyTopologicalSort
  moduleList,         \* the module directories the scan found, in order: what
                      \* manifest.json holds and whether the entry file exists
  \* ---- child-process loader (part_005) ----
  modules,            \* modules: name -> Seq(instanceId), <<>> when absent
  wsCommandRegistry,  \* key -> [moduleName, handlerId], a partial map
  roundRobinCounters, \* name -> counter
  forked,             \* the child processes forked so far
  procState,          \* instanceId -> "running" | "disconnected" | "exited" | "closed"
  appRouters,         \* routers installed with app.use, in order
  http,               \* request slot -> state of one HTTP request
  invokes,            \* set of <<instanceId, requestId>>: invoke messages sent
  now,                \* the clock, in ms
  \* ---- in-process loader (modloader.ts) and WebSocket hub (index.ts) ----
  modulesVm,          \* modules: the names that map to a ModuleContext
  handlersVm,         \* name -> the handler names the module's code has set
  executedVm,         \* the modules whose entry code has run (wholly or in part)
  wsCommandRegistryVm,\* key -> [moduleName, handlerId], a partial map
  wsOnlineClients,    \* the clients of the hub, in insertion order
  clientsById,        \* the ids that clientsById maps to a client
  readyState,         \* client -> "fresh" | "open" (readyState 1) | "closed"
  wsReq,              \* frame slot -> state of one WebSocket request
  onlinePlayersMap,   \* socket id -> the online-player record of player-tracker.ts
  clientEvents,       \* the clientConnect / clientDisconnect events handed to the
                      \* modules' handlers, in order
  wsFrames,           \* frame slot -> the calls of sendWebSocketResponse for the
                      \* request, in order: each the clients send was called on
  \* ---- inter-module messages (part_005) ----
  mpcCalls,           \* the inter-module requests module instances have issued
  mpcInbox,           \* instanceId -> the mpcRequest / mpcResponse messages the core
                      \* sent to the process, in order
  \* ---- instance selection (part_005) ----
  selections,         \* the calls of getModuleInstance made so far, in order:
                      \* module name, shard key and the instance returned
  \* ---- database and HTTP API (db/*.ts, routes/*.ts) ----
  db,                 \* the tables: the usernames of users, lastToken of each user,
                      \* the number of rows of userPermissions for each pair
  api                 \* slot -> state of one request or call that awaits the database

bootVars == <<pc, exitCode, exitError, manifests, loadBalancingConfig, sorted, skipped,
              moduleList>>
procVars == <<modules, wsCommandRegistry, roundRobinCounters, forked, procState,
              appRouters, http, invokes, now>>
vmVars == <<modulesVm, handlersVm, executedVm, wsCommandRegistryVm,
            wsOnlineClients, clientsById, readyState, wsReq, wsFrames,
            onlinePlayersMap, clientEvents>>
busVars == <<mpcCalls, mpcInbox>>
dbVars == <<db, api>>
vars == <<bootVars, procVars, vmVars, busVars, selections, dbVars>>

(***************************************************************************)
(* Helpers on sequences and strings                                        *)
(***************************************************************************)
Range(s) == {s[k] : k \in 1..Len(s)}

\* position of the first element of s equal to x, 0 when there is none
IndexOf(s, x) ==
  IF x \in Range(s) THEN CHOOSE k \in 1..Len(s) : s[k] = x /\ \A j \in 1..(k - 1) : s[j] # x
  ELSE 0

\* String.prototype.startsWith
StartsWith(s, p) == Len(s) >= Len(p) /\ SubSeq(s, 1, Len(p)) = p

\* sequences over S without repetition, of length at most n
InjSeqs(S, n) ==
  UNION {{s \in [1..k -> S] : \A i, j \in 1..k : i # j => s[i] # s[j]} : k \in 0..n}

(***************************************************************************)
(* Boot: manifests and dependencyTopologicalSort                           *)
(***************************************************************************)
\* longest dependencies list of a manifest
MaxDeps == 2

\* manifests.keys(), in insertion order (the order of the directory scan)
ManifestKeys == <<"a", "b", "c">>
ManifestNames == Range(ManifestKeys)
\* a module name that no manifest carries
MissingName == "z"
DepNames == ManifestNames \cup {MissingName}

\* the state of one run of dependencyTopologicalSort: its four collections,
\* whether process.exit was called (it never returns), and whether the
\* innermost visit returned early
SortState0 ==
  [sorted |-> <<>>, skipped |-> <<>>, visited |-> {}, temp |-> {},
   exited |-> FALSE, error |-> "", returned |-> FALSE]

RECURSIVE visit(_, _, _)
RECURSIVE visitDeps(_, _, _, _)
RECURSIVE visitDepsContinue(_, _, _, _)

\* the mutant of visitDeps: an unresolved dependency is recorded and the
\* loop goes on to the next dependency
visitDepsContinue(man, st, name, k) ==
  IF k > Len(man[name].dependencies) THEN st
  ELSE LET dep == man[name].dependencies[k] IN
    IF dep \notin DOMAIN man
    THEN visitDepsContinue(man, [st EXCEPT !.skipped = Append(@, name)], name, k + 1)
    ELSE LET s2 == visit(man, st, dep) IN
         IF s2.exited THEN s2 ELSE visitDepsContinue(man, s2, name, k + 1)

\* the loop over mod.dependencies of visit, from the k-th dependency on
visitDeps(man, st, name, k) ==
  IF k > Len(man[name].dependencies) THEN st
  ELSE LET dep == man[name].dependencies[k] IN
    IF dep \notin DOMAIN man
    THEN [st EXCEPT !.skipped = Append(@, name), !.returned = TRUE]
    ELSE LET s2 == visit(man, st, dep) IN
         IF s2.exited THEN s2 ELSE visitDeps(man, s2, name, k + 1)

\* the mutant of visit: a name found on the recursion stack is passed over
visitNoCycleCheck(man, st, name) ==
  IF st.exited \/ name \in st.temp \/ name \in st.visited THEN st
  ELSE LET r == visitDeps(man, [st EXCEPT !.temp = @ \cup {name}], name, 1) IN
    IF r.exited THEN r
    ELSE IF r.returned THEN [r EXCEPT !.returned = FALSE]
    ELSE [r EXCEPT !.temp = @ \ {name}, !.visited = @ \cup {name},
                   !.sorted = Append(@, name)]

\* const visit = (name) => { ... }
visit(man, st, name) ==
  IF st.exited THEN st
  ELSE IF name \in st.temp
  THEN [st EXCEPT !.exited = TRUE, !.error = "Circular dependency detected"]
  ELSE IF name \in st.visited THEN st
  ELSE LET st1 == [st EXCEPT !.temp = @ \cup {name}] IN
    IF name \notin DOMAIN man
    THEN [st1 EXCEPT !.exited = TRUE, !.error = "Missing module manifest"]
    ELSE LET r == visitDeps(man, st1, name, 1) IN
      IF r.exited THEN r
      ELSE IF r.returned THEN [r EXCEPT !.returned = FALSE]
      ELSE [r EXCEPT !.temp = @ \ {name}, !.visited = @ \cup {name},
                     !.sorted = Append(@, name)]

RECURSIVE visitKeys(_, _, _, _)
\* for (const name of manifests.keys()) visit(name)
visitKeys(man, keys, st, k) ==
  IF k > Len(keys) THEN st
  ELSE visitKeys(man, keys, visit(man, st, keys[k]), k + 1)

dependencyTopologicalSort(man, keys) == visitKeys(man, keys, SortState0, 1)

(***************************************************************************)
(* The child-process loader: instances, the load balancer, registration    *)
(***************************************************************************)
ModuleNames == ManifestNames
Digit(k) == CASE k = 0 -> "0" [] k = 1 -> "1" [] k = 2 -> "2" [] k = 3 -> "3" [] OTHER -> "9"

\* const instanceId = `${manifest.name}-${i}`
InstanceId(name, k) == name \o "-" \o Digit(k)

\* the largest instance count a settings.json asks for
MaxInstances == 3

\* the mutant of instanceCount: the configured count is used whatever the
\* manifest says
instanceCountAsConfigured(man, cfg, name) ==
  IF cfg[name] = 0 THEN 1 ELSE cfg[name]

\* loadModule: the number of instances to fork
instanceCount(man, cfg, name) ==
  LET configuredInstances == IF cfg[name] = 0 THEN 1 ELSE cfg[name]
      multiInstanceSupported == man[name].multiInstanceSpawning
  IN IF multiInstanceSupported THEN configuredInstances ELSE 1

\* loadModule: the list handed to modules.set(manifest.name, instances)
loadModule(man, cfg, name) ==
  [k \in 1..instanceCount(man, cfg, name) |-> InstanceId(name, k - 1)]

\* the settings.json files considered: none, and one asking two instances of "a"
NoConfig == [n \in ModuleNames |-> 0]
Configs == {NoConfig, [NoConfig EXCEPT !["a"] = 2]}

\* manifests whose dependencies are all empty
PlainManifests ==
  [n \in ManifestNames |-> [dependencies |-> <<>>, multiInstanceSpawning |-> TRUE]]

\* every instance some load can fork
Instances ==
  UNION {Range(loadModule(PlainManifests, cfg, n)) : cfg \in Configs, n \in ModuleNames}

\* manifest.name as captured by the closures of loadModule for one instance
ModuleOfInstance ==
  [i \in Instances |->
     CHOOSE n \in ModuleNames :
       \E cfg \in Configs : i \in Range(loadModule(PlainManifests, cfg, n))]
ModuleOf(i) == ModuleOfInstance[i]

RECURSIVE loadSorted(_, _, _, _, _)
\* for (const name of sorted) loadModule(path)
loadSorted(man, cfg, srt, mods, k) ==
  IF k > Len(srt) THEN mods
  ELSE loadSorted(man, cfg, srt, [mods EXCEPT ![srt[k]] = loadModule(man, cfg, srt[k])], k + 1)

(***************************************************************************)
(* The load balancer                                                       *)
(***************************************************************************)
\* the shard keys of the requests considered (a user id or x-shard-key)
ShardKeys == {"u1", "u2"}

\* String.prototype.charCodeAt for the characters of ShardKeys
charCodeAt(s, k) ==
  LET ch == SubSeq(s, k, k) IN
  CASE ch = "u" -> 117 [] ch = "1" -> 49 [] ch = "2" -> 50 [] OTHER -> 63

\* A 32-bit integer is kept as two 16-bit halves [hi, lo] of its two's
\* complement bits, so that no intermediate value leaves the integers the
\* model checker computes with.
Half == 256 * 256

\* hash = ((hash << 5) - hash) + char; hash = hash & hash
\* the bits of (31 * hash + char) modulo 2^32
hashStep(hash, char) ==
  LET lo == 31 * hash.lo + char
  IN [lo |-> lo % Half, hi |-> (31 * hash.hi + (lo \div Half)) % Half]

RECURSIVE hashLoop(_, _, _)
hashLoop(key, k, hash) ==
  IF k > Len(key) THEN hash
  ELSE hashLoop(key, k + 1, hashStep(hash, charCodeAt(key, k)))

\* Math.abs of the signed value of the bits (2^31 for the bits of -2^31)
abs32(hash) ==
  IF hash.hi < Half \div 2 THEN hash
  ELSE [lo |-> (Half - hash.lo) % Half,
        hi |-> ((Half - 1 - hash.hi) + (IF hash.lo = 0 THEN 1 ELSE 0)) % Half]

\* hashShardKey(key), as halves
hashShardKey(key) == abs32(hashLoop(key, 1, [hi |-> 0, lo |-> 0]))

\* hash % n for a hash kept as halves
hashMod(hash, n) == (((hash.hi % n) * (Half % n)) + hash.lo) % n

\* no instance (null)
NoInstance == ""

\* the mutant of getInstanceBySharding: the index is taken from the length of
\* the key
getInstanceByKeyLength(mods, moduleName, shardKey) ==
  LET instances == mods[moduleName] IN
  IF Len(instances) = 0 THEN NoInstance
  ELSE instances[(Len(shardKey) % Len(instances)) + 1]

\* getInstanceBySharding(moduleName, shardKey)
getInstanceBySharding(mods, moduleName, shardKey) ==
  LET instances == mods[moduleName] IN
  IF Len(instances) = 0 THEN NoInstance
  ELSE instances[hashMod(hashShardKey(shardKey), Len(instances)) + 1]

\* getInstanceByRoundRobin(moduleName): the instance selected
getInstanceByRoundRobin(mods, counters, moduleName) ==
  LET instances == mods[moduleName] IN
  IF Len(instances) = 0 THEN NoInstance
  ELSE instances[(counters[moduleName] % Len(instances)) + 1]

\* the mutant of countersAfterRoundRobin: one counter for all modules
countersAfterRoundRobinShared(mods, counters, moduleName) ==
  IF Len(mods[moduleName]) = 0 THEN counters
  ELSE [m \in DOMAIN counters |-> counters[m] + 1]

\* getInstanceByRoundRobin(moduleName): roundRobinCounters after the call
countersAfterRoundRobin(mods, counters, moduleName) ==
  IF Len(mods[moduleName]) = 0 THEN counters
  ELSE [counters EXCEPT ![moduleName] = @ + 1]

\* getModuleInstance(moduleName, shardKey); "" is the absent shard key
getModuleInstance(mods, counters, moduleName, shardKey) ==
  IF shardKey # "" THEN getInstanceBySharding(mods, moduleName, shardKey)
  ELSE getInstanceByRoundRobin(mods, counters, moduleName)

countersAfterSelect(mods, counters, moduleName, shardKey) ==
  IF shardKey # "" THEN counters
  ELSE countersAfterRoundRobin(mods, counters, moduleName)

(***************************************************************************)
(* Instance supervision: cleanup                                           *)
(***************************************************************************)
ProcessEvents == {"exit", "close", "error", "disconnect"}

\* s without its k-th element (Array.prototype.splice(k, 1))
Splice(s, k) == SubSeq(s, 1, k - 1) \o SubSeq(s, k + 1, Len(s))

\* cleanup: modules after the instance is removed from its module's list
modulesAfterCleanup(mods, i) ==
  LET name == ModuleOf(i)
      index == IndexOf(mods[name], i)
  IN IF index # 0 THEN [mods EXCEPT ![name] = Splice(@, index)] ELSE mods

\* cleanup: wsCommandRegistry after the loop that deletes the module's keys
registryAfterCleanup(mods, reg, i) ==
  LET name == ModuleOf(i)
      gone == {key \in DOMAIN reg : StartsWith(key, name \o ".")}
  IN [key \in DOMAIN reg \ gone |-> reg[key]]

(***************************************************************************)
(* HTTP requests to module routes                                          *)
(***************************************************************************)
\* the number of HTTP requests considered
MaxReq == 2
\* crypto.randomUUID(): each request slot is its own fresh id
Reqs == 1..MaxReq

HttpTimeoutMs == 5000
MultipartTimeoutMs == 30000
\* the clock stops after this many steps of HttpTimeoutMs
MaxTicks == 2

NoRequest ==
  [st |-> "new", module |-> "", inst |-> NoInstance, deadline |-> 0,
   timer |-> FALSE, listener |-> FALSE, res |-> <<>>]

ContentTypes == {"application/json", "multipart/form-data"}

\* req.headers of a request sent with the given Content-Type: Node keys the
\* headers of an incoming message by their lower-cased names
RequestHeaders(ct) == [h \in {"content-type"} |-> ct]

\* (req.headers['Content-Type'] || '').includes('multipart/form-data')
isMultipart(headers) ==
  LET v == IF "Content-Type" \in DOMAIN headers THEN headers["Content-Type"] ELSE ""
  IN v = "multipart/form-data"

timeoutMs(headers) == IF isMultipart(headers) THEN MultipartTimeoutMs ELSE HttpTimeoutMs

\* selectedInstance.process.killed: set by subprocess.kill(), which the core
\* never calls
killed(i) == FALSE

Routes == {<<[path |-> "/p", handlerId |-> "h1"]>>}
Commands == {<<>>, <<[command |-> "c", handlerId |-> "h1"]>>,
             <<[command |-> "c", handlerId |-> "h2"]>>}
RegisterPayloads == [routes : Routes, commands : Commands]

\* the routers installed may not grow beyond this
MaxRouters == 2

RECURSIVE setCommands(_, _, _, _)
\* for (const cmd of commands) wsCommandRegistry.set(`${name}.${command}`, ...)
setCommands(reg, name, commands, k) ==
  IF k > Len(commands) THEN reg
  ELSE LET key == name \o "." \o commands[k].command
           entry == [moduleName |-> name, handlerId |-> commands[k].handlerId]
       IN setCommands([x \in DOMAIN reg \cup {key} |-> IF x = key THEN entry ELSE reg[x]],
                      name, commands, k + 1)

\* the first router installed for the module that has a route for the path
\* (0 when there is none): the handler Express runs
RouterFor(routers, name, path) ==
  LET hits == {k \in 1..Len(routers) :
                 /\ routers[k].name = name
                 /\ \E j \in 1..Len(routers[k].routes) : routers[k].routes[j].path = path}
  IN IF hits = {} THEN 0 ELSE CHOOSE k \in hits : \A j \in hits : k <= j

\* the pending requests whose onMessage listens on the process of instance i
ListenersOn(i) == {r \in Reqs : http[r].listener /\ http[r].inst = i}

\* onMessage(msg) of request r: the timer is cleared whatever the message
\* is; a response with the request's id removes the listener and is written
onMessage(h, r, msg) ==
  IF msg.type = "response" /\ msg.id = r
  THEN [h EXCEPT !.timer = FALSE, !.listener = FALSE, !.st = "done",
                 !.res = Append(@, IF msg.status = 0 THEN 200 ELSE msg.status)]
  ELSE [h EXCEPT !.timer = FALSE]

(***************************************************************************)
(* The in-process loader (modloader.ts) and the WebSocket hub (index.ts)   *)
(***************************************************************************)
RECURSIVE Split(_, _)
\* String.prototype.split on a one-character separator
Split(s, ch) ==
  LET ks == {k \in 1..Len(s) : SubSeq(s, k, k) = ch} IN
  IF ks = {} THEN <<s>>
  ELSE LET k == CHOOSE x \in ks : \A y \in ks : x <= y IN
       <<SubSeq(s, 1, k - 1)>> \o Split(SubSeq(s, k + 1, Len(s)), ch)

NoNamespace == ""

getModuleNamespace(name) ==
  IF StartsWith(name, "@") THEN Split(name, "/")[1] ELSE NoNamespace

getBaseModuleName(name) ==
  IF StartsWith(name, "@")
  THEN (IF Len(Split(name, "/")) >= 2 THEN Split(name, "/")[2] ELSE "undefined")
  ELSE name

buildCommandName(namespace, baseModuleName, command) ==
  IF namespace # NoNamespace
  THEN namespace \o "/" \o baseModuleName \o "." \o command
  ELSE baseModuleName \o "." \o command

RECURSIVE registerModuleCommands(_, _, _, _, _)
\* registerModuleCommands(moduleName, commands) from command k on: nothing for
\* a name without manifest, else one registry entry per command
registerModuleCommands(man, reg, moduleName, commands, k) ==
  IF moduleName \notin DOMAIN man \/ k > Len(commands) THEN reg
  ELSE LET fullCommand == buildCommandName(getModuleNamespace(moduleName),
                                           getBaseModuleName(moduleName),
                                           commands[k].command)
           entry == [moduleName |-> moduleName, handlerId |-> commands[k].handlerId]
           rest == [key \in DOMAIN reg \ {fullCommand} |-> reg[key]]
       IN registerModuleCommands(man, rest @@ (fullCommand :> entry), moduleName,
                                 commands, k + 1)

\* what a module's entry code does while vm.runInContext runs it: it calls
\* Statehub.registerCommands, may call Statehub.onRPCInvoke, and then either
\* runs to its end or throws
VmCommands == {<<>>, <<[command |-> "c", handlerId |-> "h1"]>>}
Scripts == [commands : VmCommands, rpc : BOOLEAN, throws : BOOLEAN]

\* executeModule: the entry code runs with the Statehub API; modules.set is
\* reached only when the code does not throw
executeModule(man, st, name, script) ==
  [modules |-> IF script.throws THEN st.modules ELSE st.modules \cup {name},
   handlers |-> [st.handlers EXCEPT ![name] = IF script.rpc THEN {"rpc"} ELSE {}],
   executed |-> st.executed \cup {name},
   registry |-> registerModuleCommands(man, st.registry, name, script.commands, 1)]

RECURSIVE executeSorted(_, _, _, _, _)
\* the loop of loadAllModules over the sorted names, from position k on
executeSorted(man, st, srt, scripts, k) ==
  IF k > Len(srt) THEN st
  ELSE executeSorted(man, executeModule(man, st, srt[k], scripts[srt[k]]), srt, scripts, k + 1)

\* cleanupModuleRegistrations: the entries whose registration names the module
cleanupModuleRegistrations(reg, moduleName) ==
  [key \in {x \in DOMAIN reg : reg[x].moduleName # moduleName} |-> reg[key]]

Clients == {"A", "B"}
MaxWsReq == 2
WsReqs == 1..MaxWsReq
ReplyWindowMs == 30000
MaxVmTicks == 1
WsCommandNames == {"a.c"}
WsIds == {"", "X"}
WsTargets == {""}

NoWsRequest ==
  [st |-> "new", client |-> "", id |-> "", target |-> "", module |-> "",
   broadcast |-> FALSE, listening |-> FALSE, timer |-> FALSE, deadline |-> 0,
   rpc |-> "none", token |-> "", found |-> FALSE, clientUser |-> "undefined",
   user |-> "undefined"]

\* data.token of a frame: none, one that jsonwebtoken's verify rejects, one it
\* accepts
Tokens == {"", "bad", "good"}

\* payload.user as the client sends it: no such key, a falsy value (null, 0,
\* false, ''), a truthy value
PayloadUsers == {"undefined", "falsy", "truthy"}
Truthy(v) == v \notin {"undefined", "falsy", "null"}

\* authenticateUser: found is whether userByToken finds a user whose
\* lastToken is the token
authenticateUser(token, found) ==
  IF token = "" THEN "null"
  ELSE IF token = "bad" THEN "null"
  ELSE IF ~found THEN "null"
  ELSE "identity"

\* if (user) payload.user = user; else if (payload.user) payload.user = undefined
payloadUserAfterAuth(user, payloadUser) ==
  IF Truthy(user) THEN user
  ELSE IF Truthy(payloadUser) THEN "undefined"
  ELSE payloadUser

\* parseWebSocketMessage: a frame without id gets a fresh UUID (one per
\* frame), a frame without target goes to 'self'
parseWebSocketMessage(w, command, id, target) ==
  [command |-> command,
   id |-> IF id = "" THEN "uuid-" \o Digit(w) ELSE id,
   target |-> IF target = "" THEN "self" ELSE target]

\* data.command of a frame that is not a string (a number, an object, no
\* such key) is written NotAString
NotAString == "NotAString"
TypeOf(command) == IF command = NotAString THEN "other" ELSE "string"

\* the mutant of validateWebSocketCommand: the command need not be registered
validateWebSocketCommandUnregistered(reg, mods, command) ==
  LET moduleName == Split(command, ".")[1] IN
  IF TypeOf(command) # "string" THEN [ok |-> FALSE, moduleName |-> "", handler |-> <<>>]
  ELSE IF moduleName \in mods
  THEN [ok |-> TRUE, moduleName |-> moduleName,
        handler |-> IF command \in DOMAIN reg THEN reg[command] ELSE <<>>]
  ELSE [ok |-> FALSE, moduleName |-> moduleName, handler |-> <<>>]

\* validateWebSocketCommand: FALSE, or the module name and the registration
validateWebSocketCommand(reg, mods, command) ==
  LET moduleName == Split(command, ".")[1] IN
  IF TypeOf(command) # "string" THEN [ok |-> FALSE, moduleName |-> "", handler |-> <<>>]
  ELSE IF command \in DOMAIN reg /\ moduleName \in mods
  THEN [ok |-> TRUE, moduleName |-> moduleName, handler |-> reg[command]]
  ELSE [ok |-> FALSE, moduleName |-> moduleName, handler |-> <<>>]

\* handler.broadcast as sendWebSocketResponse receives it: undefined, hence
\* falsy, for a registration without that field
HandlerBroadcast(handler) ==
  IF "broadcast" \in DOMAIN handler THEN handler.broadcast ELSE FALSE

\* the mutant of Recipients: the broadcast loop without its readyState test
RecipientsAnyState(online, byId, ready, target, isBroadcast, senderId) ==
  IF target = "broadcast" \/ isBroadcast
  THEN online
  ELSE IF target = "self" \/ target = senderId THEN <<senderId>>
  ELSE IF target \in byId /\ ready[target] = "open" THEN <<target>>
  ELSE <<senderId>>

\* the clients sendWebSocketResponse calls send on, in order
Recipients(online, byId, ready, target, isBroadcast, senderId) ==
  IF target = "broadcast" \/ isBroadcast
  THEN SelectSeq(online, LAMBDA c : ready[c] = "open")
  ELSE IF target = "self" \/ target = senderId THEN <<senderId>>
  ELSE IF target \in byId /\ ready[target] = "open" THEN <<target>>
  ELSE <<senderId>>

\* the mutant of sendWebSocketResponse: a targeted frame goes to its target
\* whether or not that client is connected
sendWebSocketResponseToTarget(sent, online, byId, ready, q) ==
  Append(sent, IF q.target = "broadcast" \/ q.broadcast
               THEN Recipients(online, byId, ready, q.target, q.broadcast, q.client)
               ELSE IF q.target = "self" THEN <<q.client>> ELSE <<q.target>>)

\* sendWebSocketResponse for request q, recorded with the earlier calls: the
\* frame {id: q.id, ...} is sent to each recipient
sendWebSocketResponse(sent, online, byId, ready, q) ==
  Append(sent, Recipients(online, byId, ready, q.target, q.broadcast, q.client))

\* handleWebSocketCommand after `await authenticateUser(token)`, for the
\* request q0 of a validated frame: the module context and its rpc handler are
\* looked up, the reply handler is set up and the rpc handler is called with
\* user: payload.user
invokeRpc(q0, mods, handlers, user, t) ==
  IF q0.module \notin mods \/ "rpc" \notin handlers[q0.module]
  THEN [NoWsRequest EXCEPT !.st = "dropped"]
  ELSE [q0 EXCEPT !.st = "pending", !.user = payloadUserAfterAuth(user, q0.clientUser),
                  !.listening = TRUE, !.timer = TRUE, !.deadline = t + ReplyWindowMs,
                  !.rpc = "running"]

\* replyHandler of request w on a reply event with msgId
replyHandlerMatches(q, msgId) == q.listening /\ q.id = msgId

\* the database as db/migrations leave it for the users of the model, and no
\* request in flight
Users == {"admin", "bob"}
Perms == {"superuser", "p"}
MaxApi == 2
ApiSlots == 1..MaxApi
NoCall == [st |-> "idle"]
NoDb ==
  /\ db = [users |-> {"admin"},
           lastToken |-> [u \in Users |-> ""],
           userPermissions |->
             [row \in Users \X Perms |-> IF row = <<"admin", "superuser">> THEN 1 ELSE 0]]
  /\ api = [k \in ApiSlots |-> NoCall]

\* no inter-module message has been sent yet
NoMpc ==
  /\ mpcCalls = {}
  /\ mpcInbox = [i \in Instances |-> <<>>]
  /\ selections = <<>>

VmNothingLoaded ==
  /\ modulesVm = {}
  /\ handlersVm = [n \in ModuleNames |-> {}]
  /\ executedVm = {}
  /\ wsCommandRegistryVm = <<>>
  /\ wsOnlineClients = <<>>
  /\ clientsById = {}
  /\ readyState = [c \in Clients |-> "fresh"]
  /\ wsReq = [w \in WsReqs |-> NoWsRequest]
  /\ wsFrames = [w \in WsReqs |-> <<>>]
  /\ onlinePlayersMap = <<>>
  /\ clientEvents = <<>>

(***************************************************************************)
(* Boot: loadAllModules                                                    *)
(***************************************************************************)
NoModules == [n \in ModuleNames |-> <<>>]

\* the runtime state before anything is loaded
NothingLoaded ==
  /\ modules = NoModules
  /\ wsCommandRegistry = <<>>
  /\ roundRobinCounters = [n \in ModuleNames |-> 0]
  /\ forked = {}
  /\ procState = [i \in Instances |-> "running"]
  /\ appRouters = <<>>
  /\ http = [r \in Reqs |-> NoRequest]
  /\ invokes = {}
  /\ now = 0
  /\ VmNothingLoaded
  /\ NoMpc
  /\ NoDb

BootInit ==
  /\ pc = "init"
  /\ exitCode = 0
  /\ exitError = ""
  /\ moduleList = <<>>
  /\ manifests \in
       [ManifestNames ->
          {[dependencies |-> d, multiInstanceSpawning |-> TRUE] : d \in InjSeqs(DepNames, MaxDeps)}]
  /\ loadBalancingConfig \in Configs
  /\ sorted = <<>>
  /\ skipped = <<>>
  /\ NothingLoaded

\* loadAllModules(): sort, then loadModule for each sorted name; process.exit
\* inside the sort ends the process before the loop over sorted
LoadAllModules ==
  /\ pc = "init"
  /\ LET r == dependencyTopologicalSort(manifests, ManifestKeys) IN
       /\ sorted' = r.sorted
       /\ skipped' = r.skipped
       /\ IF r.exited
          THEN /\ pc' = "exited"
               /\ exitCode' = 1
               /\ exitError' = r.error
               /\ modules' = modules
               /\ forked' = forked
          ELSE /\ pc' = "running"
               /\ exitCode' = 0
               /\ exitError' = ""
               /\ modules' = loadSorted(manifests, loadBalancingConfig, r.sorted, modules, 1)
               /\ forked' = UNION {Range(modules'[n]) : n \in ModuleNames}
  /\ UNCHANGED <<manifests, moduleList, loadBalancingConfig, wsCommandRegistry, roundRobinCounters,
                 procState, appRouters, http, invokes, now, vmVars, busVars, selections, dbVars>>

BootNext == LoadAllModules
SpecBoot == BootInit /\ [][BootNext]_vars

(***************************************************************************)
(* Boot with any settings.json: the manifests have no dependencies, allow  *)
(* or forbid multi-instance spawning, and the configured instance counts   *)
(* are absent (0), negative or positive.                                   *)
(***************************************************************************)
LoadCounts == (0 - 1)..MaxInstances

LoadInit ==
  /\ pc = "init"
  /\ exitCode = 0
  /\ exitError = ""
  /\ moduleList = <<>>
  /\ manifests \in
       [ManifestNames ->
          {[dependencies |-> <<>>, multiInstanceSpawning |-> b] : b \in BOOLEAN}]
  /\ loadBalancingConfig \in [ModuleNames -> LoadCounts]
  /\ sorted = <<>>
  /\ skipped = <<>>
  /\ NothingLoaded

SpecLoad == LoadInit /\ [][BootNext]_vars

(***************************************************************************)
(* The running core (child-process loader)                                 *)
(***************************************************************************)
\* the manifests of the running system: "a" loads, "b" and "c" are skipped
RunManifests ==
  [PlainManifests EXCEPT !["b"].dependencies = <<MissingName>>,
                         !["c"].dependencies = <<MissingName>>]
RunConfig == [NoConfig EXCEPT !["a"] = 2]

\* the state loadAllModules leaves for RunManifests and RunConfig
Init ==
  LET result == dependencyTopologicalSort(RunManifests, ManifestKeys) IN
  /\ pc = "running"
  /\ exitCode = 0
  /\ exitError = ""
  /\ moduleList = <<>>
  /\ manifests = RunManifests
  /\ loadBalancingConfig = RunConfig
  /\ sorted = result.sorted
  /\ skipped = result.skipped
  /\ modules = loadSorted(RunManifests, RunConfig, result.sorted, NoModules, 1)
  /\ forked = UNION {Range(modules[n]) : n \in ModuleNames}
  /\ wsCommandRegistry = <<>>
  /\ roundRobinCounters = [n \in ModuleNames |-> 0]
  /\ procState = [i \in Instances |-> "running"]
  /\ appRouters = <<>>
  /\ http = [r \in Reqs |-> NoRequest]
  /\ invokes = {}
  /\ now = 0
  /\ VmNothingLoaded
  /\ NoMpc
  /\ NoDb

\* the process of instance i runs and its IPC channel is open
CanSend(i) == i \in forked /\ procState[i] = "running"

NoPayload == [routes |-> <<>>, commands |-> <<>>]
Statuses == {0, 404}

\* the messages instance i may send: a log line, a register, or a response
\* (first or repeated) to an invoke it was sent
Messages(i) ==
  {[type |-> "log", id |-> 0, status |-> 0, payload |-> NoPayload]}
  \cup {[type |-> "register", id |-> 0, status |-> 0, payload |-> p] : p \in RegisterPayloads}
  \cup {[type |-> "response", id |-> v.id, status |-> s, payload |-> NoPayload] :
          v \in {w \in invokes : w.to = i}, s \in Statuses}

\* a register message that declares the route again, with another handler
ReRegisterPayloads ==
  [routes : {<<[path |-> "/p", handlerId |-> "h2"]>>}, commands : Commands]
AllMessages(i) ==
  Messages(i)
  \cup {[type |-> "register", id |-> 0, status |-> 0, payload |-> p] : p \in ReRegisterPayloads}

\* registerModuleEndpoints(name, payload) does nothing for a module without
\* instances
Registers(name) == Len(modules[name]) # 0

\* subprocess.on('message'): handleModuleMessage, then the onMessage of every
\* pending request that listens on this process
ModuleMessage(i, msg) ==
  /\ pc = "running"
  /\ CanSend(i)
  /\ msg \in AllMessages(i)
  /\ LET name == ModuleOf(i) IN
     IF msg.type = "register" /\ Registers(name)
     THEN /\ Len(appRouters) < MaxRouters
          /\ wsCommandRegistry' = setCommands(wsCommandRegistry, name, msg.payload.commands, 1)
          /\ appRouters' = Append(appRouters, [name |-> name, routes |-> msg.payload.routes])
     ELSE UNCHANGED <<wsCommandRegistry, appRouters>>
  /\ http' = [r \in Reqs |-> IF r \in ListenersOn(i) THEN onMessage(http[r], r, msg) ELSE http[r]]
  /\ UNCHANGED <<bootVars, modules, roundRobinCounters, forked, procState, invokes, now,
                 vmVars, busVars, selections, dbVars>>

\* the events a child process may emit: disconnect when its channel closes,
\* exit once, close once after exit, error at any time before close
MayEmit(i, ev) ==
  /\ i \in forked
  /\ CASE ev = "disconnect" -> procState[i] \in {"running", "exited"}
       [] ev = "exit" -> procState[i] \in {"running", "disconnected"}
       [] ev = "close" -> procState[i] = "exited"
       [] OTHER -> procState[i] # "closed"

\* the state of the child process after the event
StateAfter(st, ev) ==
  CASE ev = "disconnect" -> IF st = "running" THEN "disconnected" ELSE st
    [] ev = "exit" -> "exited"
    [] ev = "close" -> "closed"
    [] OTHER -> st

\* subprocess.on('exit' | 'close' | 'error' | 'disconnect'): cleanup(reason)
ProcessEvent(i, ev) ==
  /\ pc = "running"
  /\ MayEmit(i, ev)
  /\ procState' = [procState EXCEPT ![i] = StateAfter(@, ev)]
  /\ modules' = modulesAfterCleanup(modules, i)
  /\ wsCommandRegistry' = registryAfterCleanup(modules, wsCommandRegistry, i)
  /\ UNCHANGED <<bootVars, roundRobinCounters, forked, appRouters, http, invokes, now,
                 vmVars, busVars, selections, dbVars>>

\* router[method](path, async (req, res) => { ... }) for a request to a
\* registered route of module name
HttpRequest(r, name, path, shardKey, ct) ==
  /\ pc = "running"
  /\ http[r].st = "new"
  /\ \A q \in Reqs : q < r => http[q].st # "new"
  /\ RouterFor(appRouters, name, path) # 0
  /\ LET k == RouterFor(appRouters, name, path)
         route == CHOOSE x \in Range(appRouters[k].routes) : x.path = path
         selectedInstance == getModuleInstance(modules, roundRobinCounters, name, shardKey)
     IN /\ roundRobinCounters' = countersAfterSelect(modules, roundRobinCounters, name, shardKey)
        /\ IF selectedInstance = NoInstance \/ killed(selectedInstance)
           THEN /\ http' = [http EXCEPT ![r] = [@ EXCEPT !.st = "done", !.module = name,
                                                          !.res = <<503>>]]
                /\ invokes' = invokes
           ELSE /\ http' = [http EXCEPT ![r] =
                              [st |-> "pending", module |-> name, inst |-> selectedInstance,
                               deadline |-> now + timeoutMs(RequestHeaders(ct)),
                               timer |-> TRUE, listener |-> TRUE, res |-> <<>>]]
                /\ invokes' = invokes \cup
                     {[to |-> selectedInstance, id |-> r, handlerId |-> route.handlerId]}
  /\ UNCHANGED <<bootVars, modules, wsCommandRegistry, forked, procState, appRouters, now,
                 vmVars, busVars, selections, dbVars>>

\* the setTimeout callback of request r
TimerFire(r) ==
  /\ pc = "running"
  /\ http[r].timer
  /\ now >= http[r].deadline
  /\ http' = [http EXCEPT ![r] = [@ EXCEPT !.timer = FALSE, !.listener = FALSE,
                                            !.st = "done", !.res = Append(@, 504)]]
  /\ UNCHANGED <<bootVars, modules, wsCommandRegistry, roundRobinCounters, forked, procState,
                 appRouters, invokes, now, vmVars, busVars, selections, dbVars>>

\* time passes; a timer that is due fires before the clock moves on
Tick ==
  /\ pc = "running"
  /\ now < MaxTicks * HttpTimeoutMs
  /\ \A r \in Reqs : http[r].timer => now < http[r].deadline
  /\ now' = now + HttpTimeoutMs
  /\ UNCHANGED <<bootVars, modules, wsCommandRegistry, roundRobinCounters, forked, procState,
                 appRouters, http, invokes, vmVars, busVars, selections, dbVars>>

Next ==
  \/ \E i \in Instances : \E msg \in Messages(i) : ModuleMessage(i, msg)
  \/ \E i \in Instances, ev \in ProcessEvents : ProcessEvent(i, ev)
  \/ \E r \in Reqs, name \in ModuleNames, shardKey \in ShardKeys \cup {""}, ct \in ContentTypes :
       HttpRequest(r, name, "/p", shardKey, ct)
  \/ \E r \in Reqs : TimerFire(r)
  \/ Tick

Spec == Init /\ [][Next]_vars

(***************************************************************************)
(* Registration (child-process loader): instances register their routes    *)
(* and commands, also a second time with other handlers, and requests are  *)
(* dispatched.                                                             *)
(***************************************************************************)
RegistryNext ==
  \/ \E i \in Instances : \E msg \in AllMessages(i) : ModuleMessage(i, msg)
  \/ \E i \in Instances : ProcessEvent(i, "exit")
  \/ \E r \in Reqs, name \in ModuleNames : HttpRequest(r, name, "/p", "", "application/json")

SpecRegistry == Init /\ [][RegistryNext]_vars

(***************************************************************************)
(* The running core (child-process loader, one process per module)         *)
(*                                                                         *)
(* unnamed/part_004 keeps one ChildProcess per module in modules.  The     *)
(* model names the process of module n by InstanceId(n, 0) and keeps it as *)
(* the one element of modules[n].                                          *)
(***************************************************************************)
\* loadModule of part_004 for each sorted name
loadSortedSingle(srt) ==
  [n \in ModuleNames |-> IF n \in Range(srt) THEN <<InstanceId(n, 0)>> ELSE <<>>]

SingleInit ==
  LET result == dependencyTopologicalSort(RunManifests, ManifestKeys) IN
  /\ pc = "running"
  /\ exitCode = 0
  /\ exitError = ""
  /\ moduleList = <<>>
  /\ manifests = RunManifests
  /\ loadBalancingConfig = NoConfig
  /\ sorted = result.sorted
  /\ skipped = result.skipped
  /\ modules = loadSortedSingle(result.sorted)
  /\ forked = UNION {Range(modules[n]) : n \in ModuleNames}
  /\ wsCommandRegistry = <<>>
  /\ roundRobinCounters = [n \in ModuleNames |-> 0]
  /\ procState = [i \in Instances |-> "running"]
  /\ appRouters = <<>>
  /\ http = [r \in Reqs |-> NoRequest]
  /\ invokes = {}
  /\ now = 0
  /\ VmNothingLoaded
  /\ NoMpc
  /\ NoDb

\* subprocess.on('message') of part_004: registerModuleEndpoints keeps the
\* process modules holds for the name in the closure of its route handlers
ModuleMessageSingle(i, msg) ==
  /\ pc = "running"
  /\ CanSend(i)
  /\ msg \in Messages(i)
  /\ LET name == ModuleOf(i) IN
     IF msg.type = "register" /\ modules[name] # <<>>
     THEN /\ Len(appRouters) < MaxRouters
          /\ wsCommandRegistry' = setCommands(wsCommandRegistry, name, msg.payload.commands, 1)
          /\ appRouters' = Append(appRouters, [name |-> name, routes |-> msg.payload.routes,
                                               subprocess |-> modules[name][1]])
     ELSE UNCHANGED <<wsCommandRegistry, appRouters>>
  /\ http' = [r \in Reqs |-> IF r \in ListenersOn(i) THEN onMessage(http[r], r, msg) ELSE http[r]]
  /\ UNCHANGED <<bootVars, modules, roundRobinCounters, forked, procState, invokes, now,
                 vmVars, busVars, selections, dbVars>>

\* cleanup of part_004: modules.delete(manifest.name)
modulesAfterCleanupSingle(mods, i) == [mods EXCEPT ![ModuleOf(i)] = <<>>]

\* subprocess.on('exit' | 'close' | 'error' | 'disconnect') of part_004
ProcessEventSingle(i, ev) ==
  /\ pc = "running"
  /\ MayEmit(i, ev)
  /\ procState' = [procState EXCEPT ![i] = StateAfter(@, ev)]
  /\ modules' = modulesAfterCleanupSingle(modules, i)
  /\ wsCommandRegistry' = registryAfterCleanup(modules, wsCommandRegistry, i)
  /\ UNCHANGED <<bootVars, roundRobinCounters, forked, appRouters, http, invokes, now,
                 vmVars, busVars, selections, dbVars>>

\* the route handler of part_004: it tests the process it captured when the
\* route was registered; send on a closed channel delivers nothing
HttpRequestSingle(r, name, path, ct) ==
  /\ pc = "running"
  /\ http[r].st = "new"
  /\ \A q \in Reqs : q < r => http[q].st # "new"
  /\ RouterFor(appRouters, name, path) # 0
  /\ LET k == RouterFor(appRouters, name, path)
         route == CHOOSE x \in Range(appRouters[k].routes) : x.path = path
         subprocess == appRouters[k].subprocess
     IN IF killed(subprocess)
        THEN /\ http' = [http EXCEPT ![r] = [@ EXCEPT !.st = "done", !.module = name,
                                                       !.res = <<503>>]]
             /\ invokes' = invokes
        ELSE /\ http' = [http EXCEPT ![r] =
                           [st |-> "pending", module |-> name, inst |-> subprocess,
                            deadline |-> now + timeoutMs(RequestHeaders(ct)),
                            timer |-> TRUE, listener |-> TRUE, res |-> <<>>]]
             /\ invokes' = IF CanSend(subprocess)
                           THEN invokes \cup {[to |-> subprocess, id |-> r,
                                               handlerId |-> route.handlerId]}
                           ELSE invokes
  /\ UNCHANGED <<bootVars, modules, wsCommandRegistry, roundRobinCounters, forked, procState,
                 appRouters, now, vmVars, busVars, selections, dbVars>>

SingleNext ==
  \/ \E i \in Instances : \E msg \in Messages(i) : ModuleMessageSingle(i, msg)
  \/ \E i \in Instances, ev \in ProcessEvents : ProcessEventSingle(i, ev)
  \/ \E r \in Reqs, name \in ModuleNames, ct \in ContentTypes :
       HttpRequestSingle(r, name, "/p", ct)
  \/ \E r \in Reqs : TimerFire(r)
  \/ Tick

SpecSingle == SingleInit /\ [][SingleNext]_vars

(***************************************************************************)
(* The running core (in-process loader and WebSocket hub)                  *)
(***************************************************************************)
\* the manifests have been read (loadModuleManifests); no module runs yet
VmInit ==
  /\ pc = "init"
  /\ exitCode = 0
  /\ exitError = ""
  /\ moduleList = <<>>
  /\ manifests = RunManifests
  /\ loadBalancingConfig = NoConfig
  /\ sorted = <<>>
  /\ skipped = <<>>
  /\ NothingLoaded

\* loadAllModules of modloader.ts: sort, then loadModule for each sorted
\* name; the scripts are what the modules' entry code does
VmLoadAllModules(scripts) ==
  /\ pc = "init"
  /\ LET r == dependencyTopologicalSort(manifests, ManifestKeys)
         st0 == [modules |-> modulesVm, handlers |-> handlersVm,
                 executed |-> executedVm, registry |-> wsCommandRegistryVm]
         st == IF r.exited THEN st0 ELSE executeSorted(manifests, st0, r.sorted, scripts, 1)
     IN /\ sorted' = r.sorted
        /\ skipped' = r.skipped
        /\ pc' = IF r.exited THEN "exited" ELSE "running"
        /\ exitCode' = IF r.exited THEN 1 ELSE 0
        /\ exitError' = r.error
        /\ modulesVm' = st.modules
        /\ handlersVm' = st.handlers
        /\ executedVm' = st.executed
        /\ wsCommandRegistryVm' = st.registry
  /\ UNCHANGED <<manifests, moduleList, loadBalancingConfig, procVars, busVars, selections, dbVars, wsOnlineClients, clientsById,
                 readyState, wsReq, wsFrames,
                 onlinePlayersMap, clientEvents>>

\* code of module m, running later (a timer or a handler of the module),
\* calls Statehub.registerCommands
ModuleRegisterCommands(m, commands) ==
  /\ pc = "running"
  /\ m \in executedVm
  /\ wsCommandRegistryVm' = registerModuleCommands(manifests, wsCommandRegistryVm, m, commands, 1)
  /\ UNCHANGED <<bootVars, procVars, busVars, selections, dbVars, modulesVm, handlersVm, executedVm, wsOnlineClients,
                 clientsById, readyState, wsReq, wsFrames,
                 onlinePlayersMap, clientEvents>>

\* unloadModule(m) for a loaded module
UnloadModule(m) ==
  /\ pc = "running"
  /\ m \in modulesVm
  /\ modulesVm' = modulesVm \ {m}
  /\ wsCommandRegistryVm' = cleanupModuleRegistrations(wsCommandRegistryVm, m)
  /\ UNCHANGED <<bootVars, procVars, busVars, selections, dbVars, handlersVm, executedVm, wsOnlineClients, clientsById,
                 readyState, wsReq, wsFrames,
                 onlinePlayersMap, clientEvents>>

\* wss 'connection'; the clients are named in the order they connect
WsConnect(c) ==
  /\ pc = "running"
  /\ readyState[c] = "fresh"
  /\ c = "B" => readyState["A"] # "fresh"
  /\ readyState' = [readyState EXCEPT ![c] = "open"]
  /\ wsOnlineClients' = Append(wsOnlineClients, c)
  /\ clientsById' = clientsById \cup {c}
  /\ UNCHANGED <<bootVars, procVars, busVars, selections, dbVars, modulesVm, handlersVm, executedVm, wsCommandRegistryVm,
                 wsReq, wsFrames,
                 onlinePlayersMap, clientEvents>>

\* the socket of c closes; its 'close' handler has not run yet
WsSocketClose(c) ==
  /\ readyState[c] = "open"
  /\ readyState' = [readyState EXCEPT ![c] = "closed"]
  /\ UNCHANGED <<bootVars, procVars, busVars, selections, dbVars, modulesVm, handlersVm, executedVm, wsCommandRegistryVm,
                 wsOnlineClients, clientsById, wsReq, wsFrames,
                 onlinePlayersMap, clientEvents>>

\* the mutant of WsOnClose: clientsById keeps the id
WsOnCloseKeepsId(c) ==
  /\ readyState[c] = "closed"
  /\ c \in Range(wsOnlineClients)
  /\ wsOnlineClients' = SelectSeq(wsOnlineClients, LAMBDA x : x # c)
  /\ clientsById' = clientsById
  /\ UNCHANGED <<bootVars, procVars, busVars, selections, dbVars, modulesVm, handlersVm, executedVm, wsCommandRegistryVm,
                 readyState, wsReq, wsFrames,
                 onlinePlayersMap, clientEvents>>

\* ws 'close'
WsOnClose(c) ==
  /\ readyState[c] = "closed"
  /\ c \in Range(wsOnlineClients)
  /\ wsOnlineClients' = SelectSeq(wsOnlineClients, LAMBDA x : x # c)
  /\ clientsById' = clientsById \ {c}
  /\ UNCHANGED <<bootVars, procVars, busVars, selections, dbVars, modulesVm, handlersVm, executedVm, wsCommandRegistryVm,
                 readyState, wsReq, wsFrames,
                 onlinePlayersMap, clientEvents>>

\* ws 'message': handleWebSocketCommand up to the call of the module's rpc
\* handler, or up to the database lookup of authenticateUser for a token that
\* verifies.  Frames take the slots in order.
WsMessage(w, c, command, id, target, token, payloadUser) ==
  /\ readyState[c] = "open"
  /\ wsReq[w].st = "new"
  /\ \A v \in WsReqs : v < w => wsReq[v].st # "new"
  /\ LET data == parseWebSocketMessage(w, command, id, target)
         validation == validateWebSocketCommand(wsCommandRegistryVm, modulesVm, data.command)
         q0 == [NoWsRequest EXCEPT !.client = c, !.id = data.id, !.target = data.target,
                                   !.module = validation.moduleName,
                                   !.broadcast = HandlerBroadcast(validation.handler),
                                   !.token = token, !.clientUser = payloadUser]
     IN IF ~validation.ok
        THEN wsReq' = [wsReq EXCEPT ![w].st = "dropped"]
        ELSE IF token = "good"
        THEN wsReq' = [wsReq EXCEPT ![w] = [q0 EXCEPT !.st = "auth"]]
        ELSE wsReq' = [wsReq EXCEPT ![w] =
                         invokeRpc(q0, modulesVm, handlersVm,
                                   authenticateUser(token, FALSE), now)]
  /\ UNCHANGED <<bootVars, procVars, busVars, selections, dbVars, modulesVm, handlersVm, executedVm, wsCommandRegistryVm,
                 wsOnlineClients, clientsById, readyState, wsFrames,
                 onlinePlayersMap, clientEvents>>

\* userByToken settles for request w: the rest of handleWebSocketCommand up to
\* the call of the module's rpc handler
WsAuthenticated(w, found) ==
  /\ wsReq[w].st = "auth"
  /\ wsReq' = [wsReq EXCEPT ![w] =
                invokeRpc([@ EXCEPT !.found = found], modulesVm, handlersVm,
                          authenticateUser(@.token, found), now)]
  /\ UNCHANGED <<bootVars, procVars, busVars, selections, dbVars, modulesVm, handlersVm, executedVm, wsCommandRegistryVm,
                 wsOnlineClients, clientsById, readyState, wsFrames,
                 onlinePlayersMap, clientEvents>>

\* the requests whose replyHandler acts on a reply event of module m's
\* emitter with msgId
Repliers(m, msgId) ==
  {w \in WsReqs : wsReq[w].module = m /\ replyHandlerMatches(wsReq[w], msgId)}

\* code of module m calls Statehub.reply(msgId, ...) with the id of a request
\* its rpc handler was invoked for: the emitter runs every replyHandler
VmReply(m, msgId) ==
  /\ m \in executedVm
  /\ \E w \in WsReqs : wsReq[w].rpc # "none" /\ wsReq[w].module = m /\ wsReq[w].id = msgId
  /\ wsFrames' = [w \in WsReqs |->
                    IF w \in Repliers(m, msgId)
                    THEN sendWebSocketResponse(wsFrames[w], wsOnlineClients, clientsById,
                                               readyState, wsReq[w])
                    ELSE wsFrames[w]]
  /\ wsReq' = [w \in WsReqs |->
                 IF w \in Repliers(m, msgId)
                 THEN [wsReq[w] EXCEPT !.timer = FALSE, !.listening = FALSE, !.st = "answered"]
                 ELSE wsReq[w]]
  /\ UNCHANGED <<bootVars, procVars, busVars, selections, dbVars, modulesVm, handlersVm, executedVm, wsCommandRegistryVm,
                 wsOnlineClients, clientsById, readyState,
                 onlinePlayersMap, clientEvents>>

RpcResults == {"undefined", "value"}

\* the rpc handler invoked for request w settles: handleWebSocketCommand
\* after its await.  A handler that throws only logs a warning, as one that
\* returns undefined does nothing: "undefined" stands for both.
RpcReturn(w, result) ==
  /\ wsReq[w].rpc = "running"
  /\ IF result = "value"
     THEN /\ wsReq' = [wsReq EXCEPT ![w].timer = FALSE, ![w].listening = FALSE,
                                    ![w].rpc = "returned",
                                    ![w].st = IF @ = "pending" THEN "answered" ELSE @]
          /\ wsFrames' = [wsFrames EXCEPT ![w] =
                             sendWebSocketResponse(@, wsOnlineClients, clientsById,
                                                   readyState, wsReq[w])]
     ELSE /\ wsReq' = [wsReq EXCEPT ![w].rpc = "returned"]
          /\ wsFrames' = wsFrames
  /\ UNCHANGED <<bootVars, procVars, busVars, selections, dbVars, modulesVm, handlersVm, executedVm, wsCommandRegistryVm,
                 wsOnlineClients, clientsById, readyState,
                 onlinePlayersMap, clientEvents>>

\* the 30 s timer of setupReplyHandler fires
ReplyTimeout(w) ==
  /\ wsReq[w].timer
  /\ now >= wsReq[w].deadline
  /\ wsReq' = [wsReq EXCEPT ![w].timer = FALSE, ![w].listening = FALSE, ![w].st = "expired"]
  /\ UNCHANGED <<bootVars, procVars, busVars, selections, dbVars, modulesVm, handlersVm, executedVm, wsCommandRegistryVm,
                 wsOnlineClients, clientsById, readyState, wsFrames,
                 onlinePlayersMap, clientEvents>>

\* time passes, never beyond an armed timer that is due
VmTick ==
  /\ pc = "running"
  /\ now < MaxVmTicks * ReplyWindowMs
  /\ \A w \in WsReqs : wsReq[w].timer => now < wsReq[w].deadline
  /\ now' = now + ReplyWindowMs
  /\ UNCHANGED <<bootVars, modules, wsCommandRegistry, roundRobinCounters, forked, procState,
                 appRouters, http, invokes, vmVars, busVars, selections, dbVars>>

VmNext ==
  \/ \E scripts \in [ModuleNames -> Scripts] : VmLoadAllModules(scripts)
  \/ \E m \in ModuleNames, commands \in VmCommands : ModuleRegisterCommands(m, commands)
  \/ \E m \in ModuleNames : UnloadModule(m)
  \/ \E c \in Clients : WsConnect(c)
  \/ \E c \in Clients : WsSocketClose(c)
  \/ \E c \in Clients : WsOnClose(c)
  \/ \E w \in WsReqs, c \in Clients, command \in WsCommandNames, id \in WsIds,
        target \in WsTargets : WsMessage(w, c, command, id, target, "", "undefined")
  \/ \E m \in ModuleNames, msgId \in {wsReq[w].id : w \in WsReqs} : VmReply(m, msgId)
  \/ \E w \in WsReqs, result \in RpcResults : RpcReturn(w, result)
  \/ \E w \in WsReqs : ReplyTimeout(w)
  \/ VmTick

SpecVm == VmInit /\ [][VmNext]_vars

(***************************************************************************)
(* The connection hub (index.ts over the in-process loader)                *)
(*                                                                         *)
(* Module "a" is loaded, has registered the command "c" and has an rpc     *)
(* handler; clients connect, send frames with any target, and close.       *)
(***************************************************************************)
HubScripts ==
  [n \in ModuleNames |->
     [commands |-> <<[command |-> "c", handlerId |-> "h1"]>>, rpc |-> TRUE, throws |-> FALSE]]

\* a frame's target: none, 'broadcast', or the id of a client
HubTargets == {"", "broadcast"} \cup Clients

\* the state loadAllModules of modloader.ts leaves for RunManifests and
\* HubScripts
HubInit ==
  LET r == dependencyTopologicalSort(RunManifests, ManifestKeys)
      st0 == [modules |-> {}, handlers |-> [n \in ModuleNames |-> {}],
              executed |-> {}, registry |-> <<>>]
      st == executeSorted(RunManifests, st0, r.sorted, HubScripts, 1)
  IN /\ pc = "running"
     /\ exitCode = 0
     /\ exitError = ""
     /\ moduleList = <<>>
     /\ manifests = RunManifests
     /\ loadBalancingConfig = NoConfig
     /\ sorted = r.sorted
     /\ skipped = r.skipped
     /\ modules = NoModules
     /\ wsCommandRegistry = <<>>
     /\ roundRobinCounters = [n \in ModuleNames |-> 0]
     /\ forked = {}
     /\ procState = [i \in Instances |-> "running"]
     /\ appRouters = <<>>
     /\ http = [q \in Reqs |-> NoRequest]
     /\ invokes = {}
     /\ now = 0
     /\ modulesVm = st.modules
     /\ handlersVm = st.handlers
     /\ executedVm = st.executed
     /\ wsCommandRegistryVm = st.registry
     /\ wsOnlineClients = <<>>
     /\ clientsById = {}
     /\ readyState = [c \in Clients |-> "fresh"]
     /\ wsReq = [w \in WsReqs |-> NoWsRequest]
     /\ wsFrames = [w \in WsReqs |-> <<>>]
     /\ onlinePlayersMap = <<>>
     /\ clientEvents = <<>>
     /\ NoMpc
     /\ NoDb

HubNext ==
  \/ \E c \in Clients : WsConnect(c)
  \/ \E c \in Clients : WsSocketClose(c)
  \/ \E c \in Clients : WsOnClose(c)
  \/ \E w \in WsReqs, c \in Clients, target \in HubTargets :
       WsMessage(w, c, "a.c", "", target, "", "undefined")
  \/ \E m \in ModuleNames, msgId \in {wsReq[w].id : w \in WsReqs} : VmReply(m, msgId)
  \/ \E w \in WsReqs, result \in RpcResults : RpcReturn(w, result)
  \/ \E w \in WsReqs : ReplyTimeout(w)
  \/ VmTick

SpecHub == HubInit /\ [][HubNext]_vars

(***************************************************************************)
(* Frames with any command (index.ts over the in-process loader): the      *)
(* command of a frame is registered or not, names a loaded module or not,  *)
(* or is no string                                                         *)
(***************************************************************************)
FrameCommands == {"a.c", "a.x", "b.c", NotAString}

FramesNext ==
  \/ \E c \in Clients : WsConnect(c)
  \/ \E m \in ModuleNames : UnloadModule(m)
  \/ \E m \in ModuleNames, commands \in VmCommands : ModuleRegisterCommands(m, commands)
  \/ \E w \in WsReqs, c \in Clients, command \in FrameCommands :
       WsMessage(w, c, command, "", "", "", "undefined")
  \/ \E m \in ModuleNames, msgId \in {wsReq[w].id : w \in WsReqs} : VmReply(m, msgId)
  \/ \E w \in WsReqs, result \in RpcResults : RpcReturn(w, result)

SpecFrames == HubInit /\ [][FramesNext]_vars

(***************************************************************************)
(* Authentication of WebSocket frames (index.ts over the in-process        *)
(* loader): the frames carry any token and any payload.user                *)
(***************************************************************************)
AuthNext ==
  \/ \E c \in Clients : WsConnect(c)
  \/ \E c \in Clients : WsSocketClose(c)
  \/ \E c \in Clients : WsOnClose(c)
  \/ \E m \in ModuleNames : UnloadModule(m)
  \/ \E w \in WsReqs, c \in Clients, token \in Tokens, payloadUser \in PayloadUsers :
       WsMessage(w, c, "a.c", "", "", token, payloadUser)
  \/ \E w \in WsReqs, found \in BOOLEAN : WsAuthenticated(w, found)
  \/ \E w \in WsReqs, result \in RpcResults : RpcReturn(w, result)

SpecAuth == HubInit /\ [][AuthNext]_vars

(***************************************************************************)
(* Inter-module messages (child-process loader)                            *)
(*                                                                         *)
(* A module instance sends {type: 'intermoduleMessage', to, id, payload,   *)
(* isResult, shardKey}; handleModuleMessage selects an instance of `to`    *)
(* and sends it {type: 'mpcRequest' | 'mpcResponse', id, payload}.  The    *)
(* caller puts its module name in the payload of a request, which is the   *)
(* only way the target learns where to address the result.                 *)
(***************************************************************************)
MaxMpc == 2
MpcIds == 1..MaxMpc
MpcShardKeys == {"", "u1"}

\* the manifests of the bus: "a" and "b" load, "c" is skipped
MpcManifests == [PlainManifests EXCEPT !["c"].dependencies = <<MissingName>>]

\* the state loadAllModules leaves for MpcManifests and RunConfig
MpcInit ==
  LET result == dependencyTopologicalSort(MpcManifests, ManifestKeys) IN
  /\ pc = "running"
  /\ exitCode = 0
  /\ exitError = ""
  /\ moduleList = <<>>
  /\ manifests = MpcManifests
  /\ loadBalancingConfig = RunConfig
  /\ sorted = result.sorted
  /\ skipped = result.skipped
  /\ modules = loadSorted(MpcManifests, RunConfig, result.sorted, NoModules, 1)
  /\ forked = UNION {Range(modules[n]) : n \in ModuleNames}
  /\ wsCommandRegistry = <<>>
  /\ roundRobinCounters = [n \in ModuleNames |-> 0]
  /\ procState = [i \in Instances |-> "running"]
  /\ appRouters = <<>>
  /\ http = [r \in Reqs |-> NoRequest]
  /\ invokes = {}
  /\ now = 0
  /\ VmNothingLoaded
  /\ NoMpc
  /\ NoDb

\* case 'intermoduleMessage': the inboxes after the message is handled
intermoduleMessage(mods, counters, inbox, msg) ==
  LET targetInstance == getModuleInstance(mods, counters, msg.to, msg.shardKey) IN
  IF targetInstance = NoInstance THEN inbox
  ELSE [inbox EXCEPT ![targetInstance] =
          Append(@, [type |-> IF msg.isResult THEN "mpcResponse" ELSE "mpcRequest",
                     id |-> msg.id, payload |-> msg.payload])]

\* the requests instance i may send: a new call, with the next free id, to any
\* module name, with or without a shard key
MpcRequests(i) ==
  IF Cardinality(mpcCalls) >= MaxMpc THEN {}
  ELSE {[type |-> "intermoduleMessage", to |-> t, id |-> Cardinality(mpcCalls) + 1,
         isResult |-> FALSE, shardKey |-> k, payload |-> ModuleOf(i), status |-> 0] :
          t \in ModuleNames, k \in MpcShardKeys}

\* the results instance i may send: one for each mpcRequest in its inbox that
\* has no result yet, addressed to the module named in the request's payload
MpcResults(i) ==
  {[type |-> "intermoduleMessage", to |-> m.payload, id |-> m.id,
    isResult |-> TRUE, shardKey |-> k, payload |-> ModuleOf(i), status |-> 0] :
     m \in {x \in Range(mpcInbox[i]) :
              /\ x.type = "mpcRequest"
              /\ \E c \in mpcCalls : c.id = x.id /\ ~c.answered},
     k \in MpcShardKeys}

\* subprocess.on('message') for an intermoduleMessage of instance i:
\* handleModuleMessage, then the onMessage of every pending request that
\* listens on this process
IntermoduleMessage(i, msg) ==
  /\ pc = "running"
  /\ CanSend(i)
  /\ mpcInbox' = intermoduleMessage(modules, roundRobinCounters, mpcInbox, msg)
  /\ roundRobinCounters' = countersAfterSelect(modules, roundRobinCounters, msg.to, msg.shardKey)
  /\ mpcCalls' = IF msg.isResult
                 THEN {IF c.id = msg.id THEN [c EXCEPT !.answered = TRUE] ELSE c : c \in mpcCalls}
                 ELSE mpcCalls \cup {[from |-> i, to |-> msg.to, id |-> msg.id,
                                      shardKey |-> msg.shardKey, answered |-> FALSE]}
  /\ http' = [r \in Reqs |-> IF r \in ListenersOn(i) THEN onMessage(http[r], r, msg) ELSE http[r]]
  /\ UNCHANGED <<bootVars, modules, wsCommandRegistry, forked, procState, appRouters,
                 invokes, now, vmVars, selections, dbVars>>

MpcNext ==
  \/ \E i \in Instances : \E msg \in MpcRequests(i) : IntermoduleMessage(i, msg)
  \/ \E i \in Instances : \E msg \in MpcResults(i) : IntermoduleMessage(i, msg)
  \/ \E i \in Instances : ProcessEvent(i, "exit")

SpecMpc == MpcInit /\ [][MpcNext]_vars

(***************************************************************************)
(* Instance selection (child-process loader)                               *)
(*                                                                         *)
(* The modules are loaded with one to MaxInstances instances each and      *)
(* getModuleInstance is called, with and without a shard key, while the    *)
(* instance lists stay as they are.                                        *)
(***************************************************************************)
MaxSelect == 4
SelectNames == {"a", "b"}
SelectKeys == ShardKeys \cup {"uuuuuuu"}
SelectConfigs ==
  {[NoConfig EXCEPT !["a"] = n, !["b"] = m] : n \in 1..MaxInstances, m \in 1..2}

\* the state loadAllModules leaves for PlainManifests and one of SelectConfigs
SelectInit ==
  LET result == dependencyTopologicalSort(PlainManifests, ManifestKeys) IN
  /\ pc = "running"
  /\ exitCode = 0
  /\ exitError = ""
  /\ moduleList = <<>>
  /\ manifests = PlainManifests
  /\ loadBalancingConfig \in SelectConfigs
  /\ sorted = result.sorted
  /\ skipped = result.skipped
  /\ modules = loadSorted(PlainManifests, loadBalancingConfig, result.sorted, NoModules, 1)
  /\ forked = UNION {Range(modules[n]) : n \in ModuleNames}
  /\ wsCommandRegistry = <<>>
  /\ roundRobinCounters = [n \in ModuleNames |-> 0]
  /\ procState = [i \in Instances \cup forked |-> "running"]
  /\ appRouters = <<>>
  /\ http = [r \in Reqs |-> NoRequest]
  /\ invokes = {}
  /\ now = 0
  /\ VmNothingLoaded
  /\ NoMpc
  /\ NoDb

\* a call getModuleInstance(moduleName, shardKey)
SelectInstance(moduleName, shardKey) ==
  /\ Len(selections) < MaxSelect
  /\ selections' = Append(selections,
                          [name |-> moduleName, key |-> shardKey,
                           inst |-> getModuleInstance(modules, roundRobinCounters,
                                                      moduleName, shardKey)])
  /\ roundRobinCounters' = countersAfterSelect(modules, roundRobinCounters, moduleName, shardKey)
  /\ UNCHANGED <<bootVars, modules, wsCommandRegistry, forked, procState, appRouters, http,
                 invokes, now, vmVars, busVars, dbVars>>

SelectNext ==
  \E moduleName \in SelectNames, shardKey \in SelectKeys \cup {""} :
    SelectInstance(moduleName, shardKey)

SpecSelect == SelectInit /\ [][SelectNext]_vars

(***************************************************************************)
(* databaseQuery messages of the child-process loader (unnamed/part_005)   *)
(*                                                                         *)
(* A query takes a slot of api from the message to the settlement of       *)
(* sql.unsafe; the databaseResult / databaseError messages the core sends  *)
(* are appended to the inbox of the process, as the mpc messages are.      *)
(***************************************************************************)
\* msg.id of a databaseQuery in slot k: 0 when the message carries none
QueryIds(k) == {0, k}

\* the mutant of sourceInstance: the first instance of the module
sourceInstanceFirst(mods, moduleName, instanceId) ==
  IF mods[moduleName] # <<>> THEN mods[moduleName][1] ELSE NoInstance

\* modules.get(moduleName)?.find(inst => inst.instanceId === instanceId)
sourceInstance(mods, moduleName, instanceId) ==
  IF instanceId \in Range(mods[moduleName]) THEN instanceId ELSE NoInstance

\* subprocess.on('message') for a databaseQuery of instance i:
\* handleModuleMessage up to the call of sql.unsafe, then the onMessage of
\* every pending request that listens on this process
DatabaseQuery(k, i, id) ==
  /\ pc = "running"
  /\ CanSend(i)
  /\ api[k].st = "idle"
  /\ \A j \in ApiSlots : j < k => api[j].st # "idle"
  /\ api' = [api EXCEPT ![k] =
               [st |-> IF id = 0 THEN "done" ELSE "querying", kind |-> "query",
                from |-> i, id |-> id]]
  /\ http' = [r \in Reqs |->
                IF r \in ListenersOn(i)
                THEN onMessage(http[r], r, [type |-> "databaseQuery", id |-> id, status |-> 0])
                ELSE http[r]]
  /\ UNCHANGED <<bootVars, modules, wsCommandRegistry, roundRobinCounters, forked, procState,
                 appRouters, invokes, now, vmVars, busVars, selections, db>>

\* sql.unsafe(payload) settles: the .then or the .catch callback
QuerySettled(k, ok) ==
  /\ api[k].st = "querying"
  /\ LET source == sourceInstance(modules, ModuleOf(api[k].from), api[k].from) IN
     mpcInbox' = IF source = NoInstance THEN mpcInbox
                 ELSE [mpcInbox EXCEPT ![source] =
                         Append(@, [type |-> IF ok THEN "databaseResult" ELSE "databaseError",
                                    id |-> api[k].id,
                                    payload |-> IF ok THEN "result" ELSE "err.message"])]
  /\ api' = [api EXCEPT ![k].st = "done"]
  /\ UNCHANGED <<bootVars, procVars, vmVars, mpcCalls, selections, db>>

QueryNext ==
  \/ \E k \in ApiSlots, i \in Instances : \E id \in QueryIds(k) : DatabaseQuery(k, i, id)
  \/ \E k \in ApiSlots, ok \in BOOLEAN : QuerySettled(k, ok)
  \/ \E i \in Instances, ev \in ProcessEvents : ProcessEvent(i, ev)

SpecQuery == Init /\ [][QueryNext]_vars

(***************************************************************************)
(* Cleanup over a registry that holds the commands of other modules        *)
(* (unnamed/part_005): next to module a, whose instances are supervised,   *)
(* two modules named "a.b" and "ab", whose processes stay alive, have      *)
(* registered commands                                                     *)
(***************************************************************************)
\* wsCommandRegistry after each of the other modules has registered one of
\* the command lists
OtherRegistries ==
  {setCommands(setCommands(<<>>, "a.b", c1, 1), "ab", c2, 1) : c1, c2 \in Commands}

PrefixInit ==
  LET result == dependencyTopologicalSort(RunManifests, ManifestKeys) IN
  /\ pc = "running"
  /\ exitCode = 0
  /\ exitError = ""
  /\ moduleList = <<>>
  /\ manifests = RunManifests
  /\ loadBalancingConfig = RunConfig
  /\ sorted = result.sorted
  /\ skipped = result.skipped
  /\ modules = loadSorted(RunManifests, RunConfig, result.sorted, NoModules, 1)
  /\ forked = UNION {Range(modules[n]) : n \in ModuleNames}
  /\ wsCommandRegistry \in OtherRegistries
  /\ roundRobinCounters = [n \in ModuleNames |-> 0]
  /\ procState = [i \in Instances |-> "running"]
  /\ appRouters = <<>>
  /\ http = [r \in Reqs |-> NoRequest]
  /\ invokes = {}
  /\ now = 0
  /\ VmNothingLoaded
  /\ NoMpc
  /\ NoDb

PrefixNext ==
  \/ \E i \in Instances : \E msg \in Messages(i) : ModuleMessage(i, msg)
  \/ \E i \in Instances, ev \in ProcessEvents : ProcessEvent(i, ev)

SpecPrefix == PrefixInit /\ [][PrefixNext]_vars

(***************************************************************************)
(* The scan of the modules directory (src/modules/modloader.ts;            *)
(* unnamed/part_005 reads the manifests with the same statements)          *)
(***************************************************************************)
\* the most module directories a scan finds
MaxScan == 3
ScanNames == {"a", "b"}

\* what JSON.parse makes of a manifest.json: a SyntaxError, or a manifest
ManifestFiles ==
  {[valid |-> FALSE]} \cup {[valid |-> TRUE, name |-> n, dependencies |-> <<>>] : n \in ScanNames}

\* findAllModules: the directories that hold a manifest.json
ModuleLists ==
  UNION {{l \in [1..k -> [path : {"d1", "d2", "d3"}, file : ManifestFiles, entry : BOOLEAN]] :
            \A j \in 1..k : l[j].path = "d" \o Digit(j)} : k \in 1..MaxScan}

RECURSIVE loadModuleManifests(_, _, _, _)
\* loadModuleManifests from the k-th directory on: man and keys are the
\* manifests map and its keys in insertion order; JSON.parse throws on a
\* malformed file and nothing catches it
loadModuleManifests(list, man, keys, k) ==
  IF k > Len(list) THEN [manifests |-> man, keys |-> keys, threw |-> FALSE]
  ELSE LET file == list[k].file IN
    IF ~file.valid THEN [manifests |-> man, keys |-> keys, threw |-> TRUE]
    ELSE loadModuleManifests(list,
           [n \in DOMAIN man \cup {file.name} |->
              IF n = file.name
              THEN [dependencies |-> file.dependencies, multiInstanceSpawning |-> TRUE,
                    path |-> list[k].path]
              ELSE man[n]],
           IF file.name \in Range(keys) THEN keys ELSE Append(keys, file.name),
           k + 1)

\* a module whose entry code sets nothing
PlainScript == [commands |-> <<>>, rpc |-> FALSE, throws |-> FALSE]

\* loadModule(modulePath) of modloader.ts: readModuleManifest,
\* validateModuleFiles, executeModule
loadModulePath(list, man, st, modulePath) ==
  LET dir == CHOOSE d \in Range(list) : d.path = modulePath IN
  IF ~dir.file.valid THEN st
  ELSE IF ~dir.entry THEN st
  ELSE executeModule(man, st, dir.file.name, PlainScript)

RECURSIVE loadSortedPaths(_, _, _, _, _)
\* for (const name of sorted) loadModule(manifests.get(name)?.path || '')
loadSortedPaths(list, man, st, srt, k) ==
  IF k > Len(srt) THEN st
  ELSE loadSortedPaths(list, man, loadModulePath(list, man, st, man[srt[k]].path), srt, k + 1)

ScanInit ==
  /\ pc = "init"
  /\ exitCode = 0
  /\ exitError = ""
  /\ moduleList \in ModuleLists
  /\ manifests = <<>>
  /\ loadBalancingConfig = NoConfig
  /\ sorted = <<>>
  /\ skipped = <<>>
  /\ NothingLoaded

\* loadAllModules of modloader.ts, called from the top level of index.ts: an
\* exception it lets through ends the process
ScanLoadAllModules ==
  /\ pc = "init"
  /\ LET m == loadModuleManifests(moduleList, manifests, <<>>, 1)
         r == IF m.threw THEN SortState0 ELSE dependencyTopologicalSort(m.manifests, m.keys)
         st0 == [modules |-> modulesVm, handlers |-> handlersVm,
                 executed |-> executedVm, registry |-> wsCommandRegistryVm]
         st == IF m.threw \/ r.exited THEN st0
               ELSE loadSortedPaths(moduleList, m.manifests, st0, r.sorted, 1)
     IN /\ manifests' = m.manifests
        /\ sorted' = r.sorted
        /\ skipped' = r.skipped
        /\ pc' = IF m.threw \/ r.exited THEN "exited" ELSE "running"
        /\ exitCode' = IF m.threw \/ r.exited THEN 1 ELSE 0
        /\ exitError' = IF m.threw THEN "SyntaxError" ELSE r.error
        /\ modulesVm' = st.modules
        /\ handlersVm' = st.handlers
        /\ executedVm' = st.executed
        /\ wsCommandRegistryVm' = st.registry
  /\ UNCHANGED <<moduleList, loadBalancingConfig, procVars, busVars, selections, dbVars,
                 wsOnlineClients, clientsById, readyState, wsReq, wsFrames,
                 onlinePlayersMap, clientEvents>>

ScanNext == ScanLoadAllModules
SpecScan == ScanInit /\ [][ScanNext]_vars

(***************************************************************************)
(* The HTTP API over the database (routes/auth.ts, db/auth.ts,             *)
(* db/users.ts)                                                            *)
(*                                                                         *)
(* Every query is one atomic step on the tables and succeeds; a request or *)
(* call that awaits a query can be overtaken by another between two of its *)
(* queries.  userPermissions is kept as the number of rows for each        *)
(* (userId, permission), the table having no unique constraint on them.    *)
(***************************************************************************)
\* tokens: "t1" and "t2" carry a signature that jsonwebtoken's verify accepts
\* with the server secret, "x1" one that it rejects (forged or expired)
ApiTokens == {"t1", "t2", "x1"}

\* the Authorization header of a request, as its words: absent, a token
\* without scheme, or a scheme and a token
AuthHeaders == {<<>>} \cup {<<t>> : t \in ApiTokens} \cup {<<"Bearer", t>> : t \in ApiTokens}

\* req.header('Authorization')?.split(' ')[1] || ''
bearerToken(header) == IF Len(header) >= 2 THEN header[2] ELSE ""

\* the mutant of jwtVerify: every token passes
jwtVerifyAny(token) == TRUE

\* the seconds of the clock at which a token is signed
MaxIat == 1
Seconds == 0..MaxIat

\* sign(payload, secretKey, {expiresIn: '12h'}) of /login: the payload is
\* {username, ip}, to which sign adds iat, the second of the clock
signLogin(username, iat) == "l." \o username \o "." \o Digit(iat)

\* sign(tmpUser, secretKey, {expiresIn: '12h'}) of /register: the payload is
\* {username, password, email, ip} and iat
signRegister(username, iat) == "r." \o username \o "." \o Digit(iat)

SignedTokens ==
  {signLogin(u, s) : u \in Users, s \in Seconds}
    \cup {signRegister(u, s) : u \in Users, s \in Seconds}

\* verify(token, secretKey, callback) calls back without error: the token was
\* signed with the key, less than twelve hours ago
jwtVerify(token) == token \in {"t1", "t2"} \cup SignedTokens

\* userByToken: result[0] || null of the rows whose lastToken is the token
userByToken(tables, token) ==
  LET hits == {u \in Users : tables.lastToken[u] = token}
  IN IF hits = {} THEN "null" ELSE CHOOSE u \in hits : TRUE

\* the tables of a running system: any token or none stored for a user, and
\* the superuser permission of admin
ApiInit ==
  /\ pc = "running"
  /\ exitCode = 0
  /\ exitError = ""
  /\ moduleList = <<>>
  /\ manifests = RunManifests
  /\ loadBalancingConfig = NoConfig
  /\ sorted = <<>>
  /\ skipped = <<>>
  /\ modules = NoModules
  /\ wsCommandRegistry = <<>>
  /\ roundRobinCounters = [n \in ModuleNames |-> 0]
  /\ forked = {}
  /\ procState = [i \in Instances |-> "running"]
  /\ appRouters = <<>>
  /\ http = [r \in Reqs |-> NoRequest]
  /\ invokes = {}
  /\ now = 0
  /\ VmNothingLoaded
  /\ NoMpc
  /\ \E stored \in [Users -> ApiTokens \cup {""}] :
       db = [users |-> Users,
             lastToken |-> stored,
             userPermissions |->
               [row \in Users \X Perms |-> IF row = <<"admin", "superuser">> THEN 1 ELSE 0]]
  /\ api = [k \in ApiSlots |-> NoCall]

\* authRouter.post('/verify') up to the database lookup: 401 without a token
\* or with one that verify rejects
VerifyRequest(k, header) ==
  /\ api[k].st = "idle"
  /\ LET token == bearerToken(header) IN
     api' = [api EXCEPT ![k] =
               IF token = "" \/ ~jwtVerify(token)
               THEN [st |-> "done", kind |-> "verify", header |-> header,
                     status |-> 401, body |-> "invalidToken"]
               ELSE [st |-> "lookup", kind |-> "verify", header |-> header]]
  /\ UNCHANGED <<bootVars, procVars, vmVars, busVars, selections, db>>

\* authRouter.post('/verify') after `await userByToken(token)`
VerifyLookup(k) ==
  /\ api[k].st = "lookup"
  /\ LET user == userByToken(db, bearerToken(api[k].header)) IN
     api' = [api EXCEPT ![k] =
               IF user = "null"
               THEN [@ EXCEPT !.st = "done"] @@ [status |-> 401, body |-> "invalidToken"]
               ELSE [@ EXCEPT !.st = "done"] @@ [status |-> 200, body |-> user]]
  /\ UNCHANGED <<bootVars, procVars, vmVars, busVars, selections, db>>

\* grantPermissions(userId, [permission]) up to its SELECT: existing is the
\* rows found
GrantSelect(k, userId, permission) ==
  /\ api[k].st = "idle"
  /\ api' = [api EXCEPT ![k] =
               [st |-> "selected", kind |-> "grant", userId |-> userId,
                permission |-> permission,
                existing |-> db.userPermissions[<<userId, permission>>]]]
  /\ UNCHANGED <<bootVars, procVars, vmVars, busVars, selections, db>>

\* grantPermissions after its SELECT: the INSERT when no row was found, and
\* the return
GrantInsert(k) ==
  /\ api[k].st = "selected"
  /\ db' = IF api[k].existing = 0
           THEN [db EXCEPT !.userPermissions[<<api[k].userId, api[k].permission>>] = @ + 1]
           ELSE db
  /\ api' = [api EXCEPT ![k].st = "done"]
  /\ UNCHANGED <<bootVars, procVars, vmVars, busVars, selections>>

ApiNext ==
  \/ \E k \in ApiSlots, header \in AuthHeaders : VerifyRequest(k, header)
  \/ \E k \in ApiSlots : VerifyLookup(k)
  \/ \E k \in ApiSlots, userId \in Users, permission \in Perms :
       GrantSelect(k, userId, permission)
  \/ \E k \in ApiSlots : GrantInsert(k)

SpecApi == ApiInit /\ [][ApiNext]_vars

(***************************************************************************)
(* Accounts: POST /auth/register, /auth/login, /auth/logout and            *)
(* /auth/verify (routes/auth.ts, db/auth.ts)                               *)
(*                                                                         *)
(* One request per slot of api.  The users table has the row of admin; bob *)
(* may register.  The clock now counts seconds here.  The rules for the    *)
(* email address are those for the username and are not modelled apart.    *)
(***************************************************************************)
MaxAccount == 3
AccountSlots == 1..MaxAccount

\* userByName / userByEmail: whether a row is found
userByName(tables, username) == username \in tables.users

AccountInit ==
  /\ pc = "running"
  /\ exitCode = 0
  /\ exitError = ""
  /\ moduleList = <<>>
  /\ manifests = RunManifests
  /\ loadBalancingConfig = NoConfig
  /\ sorted = <<>>
  /\ skipped = <<>>
  /\ modules = NoModules
  /\ wsCommandRegistry = <<>>
  /\ roundRobinCounters = [n \in ModuleNames |-> 0]
  /\ forked = {}
  /\ procState = [i \in Instances |-> "running"]
  /\ appRouters = <<>>
  /\ http = [r \in Reqs |-> NoRequest]
  /\ invokes = {}
  /\ now = 0
  /\ VmNothingLoaded
  /\ NoMpc
  /\ db = [users |-> {"admin"},
           lastToken |-> [u \in Users |-> ""],
           userPermissions |->
             [row \in Users \X Perms |-> IF row = <<"admin", "superuser">> THEN 1 ELSE 0]]
  /\ api = [k \in AccountSlots |-> NoCall]

\* the requests take the slots in order
FreeSlot(k) == api[k].st = "idle" /\ \A j \in DOMAIN api : j < k => api[j].st # "idle"

\* authRouter.post('/register') up to createUserAccount: the validators, of
\* which validateUsernameNotTaken awaits userByName, then sign
RegisterRequest(k, username) ==
  /\ FreeSlot(k)
  /\ api' = [api EXCEPT ![k] =
               IF userByName(db, username)
               THEN [st |-> "done", kind |-> "register", username |-> username,
                     status |-> 400, token |-> "", created |-> FALSE]
               ELSE [st |-> "inserting", kind |-> "register", username |-> username,
                     status |-> 0, token |-> signRegister(username, now), created |-> FALSE]]
  /\ UNCHANGED <<bootVars, procVars, vmVars, busVars, selections, db>>

\* createUserAccount settles and the handler answers: the insert fails on the
\* UNIQUE constraint of username when a row exists, which the .catch of
\* createUserAccount logs
RegisterInsert(k) ==
  /\ api[k].st = "inserting"
  /\ LET username == api[k].username
         created == username \notin db.users
     IN /\ db' = IF created
                 THEN [db EXCEPT !.users = @ \cup {username},
                                 !.lastToken[username] = api[k].token]
                 ELSE db
        /\ api' = [api EXCEPT ![k].st = "done", ![k].status = 200, ![k].created = created]
  /\ UNCHANGED <<bootVars, procVars, vmVars, busVars, selections>>

\* updateUserLogin: update users set lastToken = token where username = username
updateUserLogin(tables, username, token) ==
  IF username \in tables.users
  THEN [tables EXCEPT !.lastToken[username] = token]
  ELSE tables

\* authRouter.post('/login') up to updateUserLogin: userByName, the comparison
\* of the password hashes (passwordOk), and sign
LoginRequest(k, username, passwordOk) ==
  /\ FreeSlot(k)
  /\ api' = [api EXCEPT ![k] =
               IF ~userByName(db, username) \/ ~passwordOk
               THEN [st |-> "done", kind |-> "login", username |-> username,
                     status |-> 401, token |-> ""]
               ELSE [st |-> "updating", kind |-> "login", username |-> username,
                     status |-> 0, token |-> signLogin(username, now)]]
  /\ UNCHANGED <<bootVars, procVars, vmVars, busVars, selections, db>>

\* authRouter.post('/login') after `await updateUserLogin(...)`
LoginUpdate(k) ==
  /\ api[k].st = "updating"
  /\ db' = updateUserLogin(db, api[k].username, api[k].token)
  /\ api' = [api EXCEPT ![k].st = "done", ![k].status = 200]
  /\ UNCHANGED <<bootVars, procVars, vmVars, busVars, selections>>

\* authRouter.post('/logout') up to updateUserLogin: 401 without a token, and
\* userByToken
LogoutRequest(k, header) ==
  /\ FreeSlot(k)
  /\ LET token == bearerToken(header)
         user == userByToken(db, token)
     IN api' = [api EXCEPT ![k] =
                  IF token = "" \/ user = "null"
                  THEN [st |-> "done", kind |-> "logout", username |-> "",
                        status |-> 401, token |-> token]
                  ELSE [st |-> "clearing", kind |-> "logout", username |-> user,
                        status |-> 0, token |-> token]]
  /\ UNCHANGED <<bootVars, procVars, vmVars, busVars, selections, db>>

\* authRouter.post('/logout') after `await updateUserLogin(user.username, '', ip)`
LogoutUpdate(k) ==
  /\ api[k].st = "clearing"
  /\ db' = updateUserLogin(db, api[k].username, "")
  /\ api' = [api EXCEPT ![k].st = "done", ![k].status = 200]
  /\ UNCHANGED <<bootVars, procVars, vmVars, busVars, selections>>

\* a second passes
AccountTick ==
  /\ now < MaxIat
  /\ now' = now + 1
  /\ UNCHANGED <<bootVars, modules, wsCommandRegistry, roundRobinCounters, forked,
                 procState, appRouters, http, invokes, vmVars, busVars, selections, dbVars>>

\* the Authorization headers of the requests: none, or a token that was signed
AccountHeaders == {<<>>} \cup {<<"Bearer", t>> : t \in SignedTokens}

AccountNext ==
  \/ \E k \in AccountSlots : RegisterRequest(k, "bob")
  \/ \E k \in AccountSlots : RegisterInsert(k)
  \/ \E k \in AccountSlots, username \in Users, passwordOk \in BOOLEAN :
       LoginRequest(k, username, passwordOk)
  \/ \E k \in AccountSlots : LoginUpdate(k)
  \/ \E k \in AccountSlots, header \in AccountHeaders : LogoutRequest(k, header)
  \/ \E k \in AccountSlots : LogoutUpdate(k)
  \/ \E k \in AccountSlots, header \in AccountHeaders :
       FreeSlot(k) /\ VerifyRequest(k, header)
  \/ \E k \in AccountSlots : VerifyLookup(k)
  \/ AccountTick

SpecAccount == AccountInit /\ [][AccountNext]_vars

(***************************************************************************)
(* Permissions: POST /users/grant and /users/ungrant (routes/users.ts,     *)
(* db/users.ts)                                                            *)
(*                                                                         *)
(* The permissions array of a request has one element.  admin and bob are  *)
(* logged in with the tokens t1 and t2; carol has no row in users.         *)
(***************************************************************************)
GrantPerms == {"superuser", "dev"}
PERMISSION_MANAGEMENT_PERMISSIONS == {"admin", "dev", "sysadmin", "superuser"}
GrantTargets == Users \cup {"carol"}

\* the permissions of the rows of userPermissions of a user
permissionsOf(tables, user) ==
  {perm \in GrantPerms : tables.userPermissions[<<user, perm>>] > 0}

\* authMiddleware: req.user, with its permissions, or none
requestUser(tables, header) ==
  LET token == bearerToken(header) IN
  IF token = "" \/ ~jwtVerify(token) THEN "null" ELSE userByToken(tables, token)

\* checkPermissionManagement
checkPermissionManagement(tables, user) ==
  /\ user # "null"
  /\ permissionsOf(tables, user) \cap PERMISSION_MANAGEMENT_PERMISSIONS # {}

\* the mutant of grantRefused: no permission is refused
grantRefusedNever(permission) == FALSE

\* /grant: permissions.includes('superuser')
grantRefused(permission) == permission = "superuser"

\* /ungrant: username === 'admin' && permissions.includes('superuser')
ungrantRefused(username, permission) == username = "admin" /\ permission = "superuser"

\* getUserByUsername: result[0] || null
getUserByUsername(tables, username) ==
  IF username \in tables.users THEN username ELSE "null"

\* the tables before the requests: admin has superuser, bob any permissions
GrantInit ==
  /\ pc = "running"
  /\ exitCode = 0
  /\ exitError = ""
  /\ moduleList = <<>>
  /\ manifests = RunManifests
  /\ loadBalancingConfig = NoConfig
  /\ sorted = <<>>
  /\ skipped = <<>>
  /\ modules = NoModules
  /\ wsCommandRegistry = <<>>
  /\ roundRobinCounters = [n \in ModuleNames |-> 0]
  /\ forked = {}
  /\ procState = [i \in Instances |-> "running"]
  /\ appRouters = <<>>
  /\ http = [r \in Reqs |-> NoRequest]
  /\ invokes = {}
  /\ now = 0
  /\ VmNothingLoaded
  /\ NoMpc
  /\ \E held \in SUBSET GrantPerms :
       db = [users |-> Users,
             lastToken |-> [u \in Users |-> IF u = "admin" THEN "t1" ELSE "t2"],
             userPermissions |->
               [row \in Users \X GrantPerms |->
                  IF row = <<"admin", "superuser">> \/ (row[1] = "bob" /\ row[2] \in held)
                  THEN 1 ELSE 0]]
  /\ api = [k \in ApiSlots |-> NoCall]

\* a request to /grant or /ungrant up to `await getUserByUsername(username)`:
\* authMiddleware, checkPermissionManagement and the tests of the body
ManageRequest(k, kind, header, username, permission) ==
  /\ FreeSlot(k)
  /\ LET user == requestUser(db, header)
         call == [kind |-> kind, caller |-> user, username |-> username,
                  permission |-> permission, userId |-> "null", existing |-> 0,
                  managing |-> checkPermissionManagement(db, user)]
         refused == IF kind = "grant" THEN grantRefused(permission)
                    ELSE ungrantRefused(username, permission)
     IN api' = [api EXCEPT ![k] =
                  IF ~call.managing THEN call @@ [st |-> "done", status |-> 404]
                  ELSE IF refused THEN call @@ [st |-> "done", status |-> 403]
                  ELSE call @@ [st |-> "lookup", status |-> 0]]
  /\ UNCHANGED <<bootVars, procVars, vmVars, busVars, selections, db>>

\* /grant and /ungrant after `await getUserByUsername(username)`
ManageLookup(k) ==
  /\ api[k].st = "lookup"
  /\ api[k].kind \in {"grant", "ungrant"}
  /\ LET user == getUserByUsername(db, api[k].username) IN
     api' = [api EXCEPT ![k] =
               IF user = "null"
               THEN [@ EXCEPT !.st = "done", !.status = 404]
               ELSE [@ EXCEPT !.st = "found", !.userId = user]]
  /\ UNCHANGED <<bootVars, procVars, vmVars, busVars, selections, db>>

\* grantPermissions(user.id, permissions) up to its SELECT
ManageGrantSelect(k) ==
  /\ api[k].st = "found"
  /\ api[k].kind = "grant"
  /\ api' = [api EXCEPT ![k].st = "selected",
                        ![k].existing = db.userPermissions[<<api[k].userId, api[k].permission>>]]
  /\ UNCHANGED <<bootVars, procVars, vmVars, busVars, selections, db>>

\* grantPermissions after its SELECT, and the answer of /grant
ManageGrantInsert(k) ==
  /\ api[k].st = "selected"
  /\ api[k].kind = "grant"
  /\ db' = IF api[k].existing = 0
           THEN [db EXCEPT !.userPermissions[<<api[k].userId, api[k].permission>>] = @ + 1]
           ELSE db
  /\ api' = [api EXCEPT ![k].st = "done", ![k].status = 200]
  /\ UNCHANGED <<bootVars, procVars, vmVars, busVars, selections>>

\* ungrantPermissions(user.id, permissions): the DELETE, and the answer of
\* /ungrant
ManageUngrantDelete(k) ==
  /\ api[k].st = "found"
  /\ api[k].kind = "ungrant"
  /\ db' = [db EXCEPT !.userPermissions[<<api[k].userId, api[k].permission>>] = 0]
  /\ api' = [api EXCEPT ![k].st = "done", ![k].status = 200]
  /\ UNCHANGED <<bootVars, procVars, vmVars, busVars, selections>>

GrantHeaders == {<<>>, <<"Bearer", "t1">>, <<"Bearer", "t2">>}

GrantNext ==
  \/ \E k \in ApiSlots, kind \in {"grant", "ungrant"}, header \in GrantHeaders :
       \E username \in GrantTargets, permission \in GrantPerms :
         ManageRequest(k, kind, header, username, permission)
  \/ \E k \in ApiSlots : ManageLookup(k)
  \/ \E k \in ApiSlots : ManageGrantSelect(k)
  \/ \E k \in ApiSlots : ManageGrantInsert(k)
  \/ \E k \in ApiSlots : ManageUngrantDelete(k)

SpecGrant == GrantInit /\ [][GrantNext]_vars

(***************************************************************************)
(* The dependency graph of the manifests                                   *)
(***************************************************************************)
DepsOf(n) == Range(manifests[n].dependencies) \cap DOMAIN manifests
Unresolved(n) == \E d \in Range(manifests[n].dependencies) : d \notin DOMAIN manifests

RECURSIVE Closure(_, _, _)
\* the names reachable from S along dependencies that stay inside Among
Closure(S, Among, k) ==
  IF k = 0 THEN S
  ELSE Closure(S \cup UNION {DepsOf(x) \cap Among : x \in S}, Among, k - 1)

TransDeps(n) == Closure(DepsOf(n), DOMAIN manifests, Cardinality(DOMAIN manifests))
HasCycle == \E n \in DOMAIN manifests : n \in TransDeps(n)

Resolved == {n \in DOMAIN manifests : ~Unresolved(n)}
\* a cycle all of whose modules declare only dependencies that have manifests
HasResolvedCycle ==
  \E n \in Resolved :
    n \in Closure(DepsOf(n) \cap Resolved, Resolved, Cardinality(DOMAIN manifests))

\* unresolved itself, or depending on an unresolved module, directly or not
Tainted(n) == Unresolved(n) \/ \E d \in TransDeps(n) : Unresolved(d)

(***************************************************************************)
(* C5 - Whenever dependencyTopologicalSort returns, sorted and skipped     *)
(* have no element in common and every module in sorted has each of its    *)
(* declared dependencies at an earlier position in sorted.                 *)
(***************************************************************************)
C5_SortedSound ==
  pc = "running" =>
    /\ Range(sorted) \cap Range(skipped) = {}
    /\ \A k \in 1..Len(sorted) :
         \A d \in Range(manifests[sorted[k]].dependencies) :
           \E j \in 1..(k - 1) : sorted[j] = d

C5_Witness ==
  /\ pc = "running"
  /\ Len(sorted) >= 2
  /\ skipped # <<>>
  /\ \E k \in 1..Len(sorted) : manifests[sorted[k]].dependencies # <<>>

(***************************************************************************)
(* C6 - If a module D declares a dependency for which no manifest exists,  *)
(* D is recorded in skipped, boot continues without a process exit,        *)
(* neither D nor any module that depends on D directly or transitively is  *)
(* in sorted or loaded, and all modules unrelated to D are still loaded.   *)
(* Stated for manifests without a dependency cycle.                        *)
(***************************************************************************)
C6_UnresolvedIsSkippedNotFatal ==
  (pc # "init" /\ ~HasCycle) =>
    \A D \in DOMAIN manifests :
      Unresolved(D) =>
        /\ pc = "running"
        /\ D \in Range(skipped)
        /\ \A E \in DOMAIN manifests :
             (E = D \/ D \in TransDeps(E)) => (E \notin Range(sorted) /\ modules[E] = <<>>)
        /\ \A U \in DOMAIN manifests : ~Tainted(U) => modules[U] # <<>>

(***************************************************************************)
(* C7 - as claimed: if the manifests contain a dependency cycle,           *)
(* loadAllModules terminates the process with a non-zero exit code before  *)
(* any module is loaded.                                                   *)
(***************************************************************************)
C7_Original_AnyCycleIsFatal ==
  (pc # "init" /\ HasCycle) =>
    /\ pc = "exited"
    /\ exitCode # 0
    /\ forked = {} /\ modules = NoModules
    /\ DOMAIN wsCommandRegistry = {} /\ appRouters = <<>>

(***************************************************************************)
(* C7 - as amended: if the manifests contain a dependency cycle all of     *)
(* whose modules declare only dependencies that have manifests,            *)
(* loadAllModules terminates the process with a non-zero exit code before  *)
(* any module is loaded: no instance is added to modules and no route or   *)
(* command is registered.                                                  *)
(***************************************************************************)
C7_ResolvedCycleIsFatal ==
  (pc # "init" /\ HasResolvedCycle) =>
    /\ pc = "exited"
    /\ exitCode # 0
    /\ forked = {} /\ modules = NoModules
    /\ DOMAIN wsCommandRegistry = {} /\ appRouters = <<>>

C7_Witness ==
  /\ pc = "exited"
  /\ HasResolvedCycle
  /\ \E n \in DOMAIN manifests : ~Tainted(n) /\ n \notin TransDeps(n)

(***************************************************************************)
(* C1 - Every HTTP request dispatched to a module instance is completed    *)
(* exactly once, by the response carrying its id or by its timer (504),    *)
(* whatever other messages the instance sends meanwhile: nothing is        *)
(* written twice, and a request that has no answer yet still has its timer *)
(* armed, so that 504 is written at its deadline at the latest.            *)
(***************************************************************************)
Dispatched(r) == http[r].inst # NoInstance

C1_ExactlyOneOutcome ==
  \A r \in Reqs :
    Dispatched(r) =>
      /\ Len(http[r].res) <= 1
      /\ http[r].res = <<>> => http[r].timer

(***************************************************************************)
(* C3 - Once the timer of an HTTP request has fired and 504 has been sent, *)
(* a later response message with that request id has no effect: nothing    *)
(* more is written for it and no other pending request is affected.        *)
(***************************************************************************)
C3_LateResponseHasNoEffect ==
  [][\A i \in Instances : \A msg \in Messages(i) :
       (msg.type = "response" /\ http[msg.id].res = <<504>> /\ ModuleMessage(i, msg))
         => UNCHANGED http]_vars

(***************************************************************************)
(* C8 - While at least one instance of a module is still alive, the death  *)
(* of a sibling instance (exit, close, error or disconnect) leaves the     *)
(* module's commands in wsCommandRegistry.                                 *)
(***************************************************************************)
CommandsOf(reg, name) == {key \in DOMAIN reg : reg[key].moduleName = name}

C8_SiblingDeathKeepsCommands ==
  [][\A i \in Instances : \A ev \in ProcessEvents :
       (ProcessEvent(i, ev) /\ modules'[ModuleOf(i)] # <<>>)
         => CommandsOf(wsCommandRegistry', ModuleOf(i))
              = CommandsOf(wsCommandRegistry, ModuleOf(i))]_vars

(***************************************************************************)
(* C10 - An HTTP request to a registered module route that arrives when    *)
(* all instances of the module have died is answered 503 for that module,  *)
(* and no invoke is sent to any process.  Stated for the loader with one   *)
(* process per module (SpecSingle).                                        *)
(***************************************************************************)
AllDead(name) ==
  /\ \E i \in forked : ModuleOf(i) = name
  /\ \A i \in forked : ModuleOf(i) = name => procState[i] \in {"exited", "closed"}

C10_DeadModule503 ==
  [][\A r \in Reqs, name \in ModuleNames, ct \in ContentTypes :
       (HttpRequestSingle(r, name, "/p", ct) /\ AllDead(name))
         => /\ http'[r].res = <<503>>
            /\ http'[r].module = name
            /\ ~http'[r].timer /\ ~http'[r].listener
            /\ invokes' = invokes]_vars

\* The same property of the loader with several instances per module (Spec),
\* where the route handler selects an instance from modules at each request.
DeadModule503_MultiInstance ==
  [][\A r \in Reqs, name \in ModuleNames, shardKey \in ShardKeys \cup {""}, ct \in ContentTypes :
       (HttpRequest(r, name, "/p", shardKey, ct) /\ AllDead(name))
         => /\ http'[r].res = <<503>>
            /\ http'[r].module = name
            /\ ~http'[r].timer /\ ~http'[r].listener
            /\ invokes' = invokes]_vars

DeadModule503_MultiInstance_Reached ==
  \E r \in Reqs :
    /\ http[r].res = <<503>>
    /\ AllDead(http[r].module)
    /\ RouterFor(appRouters, http[r].module, "/p") # 0

(***************************************************************************)
(* C2 - A single reply carrying id X completes at most one pending         *)
(* request, also when two WebSocket clients have requests in flight that   *)
(* carry the same client-chosen id X: no step hands reply frames to send   *)
(* for more than one request.                                              *)
(***************************************************************************)
C2_ReplyCompletesAtMostOne ==
  [][\A v, w \in WsReqs :
       (v # w /\ wsReq[v].client # wsReq[w].client /\ wsReq[v].id = wsReq[w].id)
         => ~(wsFrames'[v] # wsFrames[v] /\ wsFrames'[w] # wsFrames[w])]_vars

(***************************************************************************)
(* C4 - After the 30 s reply window of a WebSocket request has expired, no *)
(* reply frame is sent for it any more, neither for a late reply(msgId) of *)
(* the module nor for a late return value of the module's rpc handler.     *)
(***************************************************************************)
C4_NoFrameAfterWindow ==
  [][\A w \in WsReqs : wsReq[w].st = "expired" => wsFrames'[w] = wsFrames[w]]_vars

(***************************************************************************)
(* C9 - In every reachable state, every entry of wsCommandRegistry names a *)
(* module that is in modules, after any sequence of load, register,        *)
(* unload and failed load.  Stated for the in-process loader (SpecVm).     *)
(***************************************************************************)
C9_RegistryNamesLoadedModule ==
  \A key \in DOMAIN wsCommandRegistryVm : wsCommandRegistryVm[key].moduleName \in modulesVm

\* The same property of the child-process loader (Spec): every entry names a
\* module with at least one instance in modules.
RegistryNamesLiveModule_MultiInstance ==
  \A key \in DOMAIN wsCommandRegistry : modules[wsCommandRegistry[key].moduleName] # <<>>

(***************************************************************************)
(* C11 - If a module instance dies while an HTTP request that was sent to  *)
(* it is still pending, the request is answered 504 at its deadline: it   *)
(* is never left unanswered, that is, as long as it has no answer its      *)
(* timer is armed (a dead instance sends nothing, so the timer is all that *)
(* can still answer it).                                                   *)
(***************************************************************************)
Dead(i) == procState[i] \in {"exited", "closed"}

C11_DeadInstanceRequestGets504 ==
  \A r \in Reqs :
    (Dispatched(r) /\ Dead(http[r].inst) /\ http[r].res = <<>>) => http[r].timer
(***************************************************************************)
(* C12 - When an instance of module A sends an inter-module request with   *)
(* id X to module B and an instance of B answers it (isResult = true, id   *)
(* X), the mpcResponse with id X is delivered to the instance of A that    *)
(* issued the request and to no other instance.                            *)
(***************************************************************************)
HasMpc(j, type, id) == \E m \in Range(mpcInbox[j]) : m.type = type /\ m.id = id

C12_ResponseReachesIssuer ==
  \A c \in mpcCalls : \A j \in Instances :
    HasMpc(j, "mpcResponse", c.id) => j = c.from

(***************************************************************************)
(* C13 - An inter-module request addressed to a module that is not loaded  *)
(* yields an error response carrying the request id to the calling         *)
(* instance: a call that reached no instance of its target has an answer   *)
(* with its id in the caller's inbox.                                      *)
(***************************************************************************)
C13_MissingTargetAnswered ==
  \A c \in mpcCalls :
    (\A j \in Instances : ~HasMpc(j, "mpcRequest", c.id)) =>
      HasMpc(c.from, "mpcResponse", c.id)

(***************************************************************************)
(* C14 - When the command's registry entry has broadcast = true or the     *)
(* frame's target is 'broadcast', each reply frame is sent to every client *)
(* that is in the hub with an open socket at reply time, exactly once      *)
(* each, and to no other client.                                           *)
(***************************************************************************)
Count(seq, x) == Cardinality({k \in 1..Len(seq) : seq[k] = x})
ReplySent(w) == Len(wsFrames'[w]) > Len(wsFrames[w])
LastSend(w) == wsFrames'[w][Len(wsFrames'[w])]
InHubOpen(c) == c \in Range(wsOnlineClients) /\ readyState[c] = "open"

C15_TargetedReplyReachesOneSocket ==
  [][\A w \in WsReqs :
       LET q == wsReq[w] IN
       (ReplySent(w) /\ ~q.broadcast /\ q.target # "broadcast") =>
         LastSend(w) = IF q.target = "self" \/ q.target = q.client THEN <<q.client>>
                       ELSE IF q.target \in clientsById /\ readyState[q.target] = "open"
                            THEN <<q.target>>
                       ELSE <<q.client>>]_vars

\* client A's request was answered to client B, and client B's request, aimed
\* at A after A had left the hub, was answered to B itself
C15_Witness ==
  /\ wsReq[1].client = "A" /\ wsReq[1].target = "B" /\ wsFrames[1] = << <<"B">> >>
  /\ wsReq[2].client = "B" /\ wsReq[2].target = "A" /\ wsFrames[2] = << <<"B">> >>

(***************************************************************************)
(* C17 - In every reachable state of the hub a client is in wsOnlineClients*)
(* if and only if clientsById maps its id to it, and no two clients in the *)
(* hub share an id.                                                        *)
(***************************************************************************)
C17_HubIndicesAgree ==
  /\ \A c \in Clients : c \in Range(wsOnlineClients) <=> c \in clientsById
  /\ \A c \in Clients : Count(wsOnlineClients, c) <= 1

\* client A has left the hub while client B is still in it
C17_Witness ==
  /\ readyState["A"] = "closed"
  /\ wsOnlineClients = <<"B">>
  /\ clientsById = {"B"}

(***************************************************************************)
(* C16 - For every inbound WebSocket frame, the user field that reaches    *)
(* the module's rpc handler is the identity derived from the frame's token *)
(* when that token is valid (it verifies and a user holds it), and is      *)
(* absent otherwise: a payload.user supplied by the client never reaches   *)
(* the module.                                                             *)
(***************************************************************************)
C16_HandlerUserComesFromToken ==
  \A w \in WsReqs :
    wsReq[w].rpc # "none" =>
      wsReq[w].user = IF wsReq[w].token = "good" /\ wsReq[w].found
                      THEN "identity" ELSE "undefined"

(***************************************************************************)
(* C18 - After a module with a live instance registers a command c with    *)
(* handlerId h, looking up the command's full name returns handlerId h for *)
(* that module; and when the same command name, or the same HTTP (method,  *)
(* path), is registered again with handlerId h2, later dispatches use h2:  *)
(* every invoke carries the handlerId of the latest registration of its    *)
(* route.                                                                  *)
(***************************************************************************)
\* the handlerId of the route in the latest router of the module that has it
LatestHandlerId(routers, name, path) ==
  LET hits == {k \in 1..Len(routers) :
                 /\ routers[k].name = name
                 /\ \E j \in 1..Len(routers[k].routes) : routers[k].routes[j].path = path}
      last == CHOOSE k \in hits : \A j \in hits : j <= k
  IN (CHOOSE x \in Range(routers[last].routes) : x.path = path).handlerId

CommandRegistered(i, msg) ==
  \A k \in 1..Len(msg.payload.commands) :
    LET key == ModuleOf(i) \o "." \o msg.payload.commands[k].command IN
    /\ key \in DOMAIN wsCommandRegistry'
    /\ wsCommandRegistry'[key] = [moduleName |-> ModuleOf(i),
                                  handlerId |-> msg.payload.commands[k].handlerId]

C18_LatestRegistrationIsDispatched ==
  [][/\ \A i \in Instances : \A msg \in AllMessages(i) :
          (msg.type = "register" /\ Registers(ModuleOf(i)) /\ ModuleMessage(i, msg))
            => CommandRegistered(i, msg)
     /\ \A v \in invokes' \ invokes :
          v.handlerId = LatestHandlerId(appRouters, http'[v.id].module, "/p")]_vars

(***************************************************************************)
(* C19 - Sharded selection is a pure function of the key and the instance  *)
(* list: for a module with a fixed list of n >= 1 instances and a          *)
(* non-empty shard key k, getModuleInstance returns instances[hash(k) mod  *)
(* n], two calls with the same key return the same instance, and the call  *)
(* does not change the round-robin counters.                               *)
(***************************************************************************)
\* Math.abs of the 32-bit hash of the keys, computed by hand
HashOf(key) ==
  CASE key = "u1" -> 3676
    [] key = "u2" -> 3677
    [] key = "uuuuuuu" -> 74987371

Selected == Len(selections') = Len(selections) + 1
LastSelection == selections'[Len(selections')]

C19_ShardedSelectionIsPure ==
  [][(Selected /\ LastSelection.key # "") =>
       LET s == LastSelection
           instances == modules[s.name]
           index == HashOf(s.key) % Len(instances)
       IN /\ index \in 0..(Len(instances) - 1)
          /\ s.inst = instances[index + 1]
          /\ \A j \in 1..Len(selections) :
               (selections[j].name = s.name /\ selections[j].key = s.key)
                 => selections[j].inst = s.inst
          /\ roundRobinCounters' = roundRobinCounters]_vars

\* with three instances of "a", the key "u2" selected the third one twice,
\* with a keyless selection in between
C19_Witness ==
  /\ Len(modules["a"]) = 3
  /\ Len(selections) = 3
  /\ selections[1] = [name |-> "a", key |-> "u2", inst |-> "a-2"]
  /\ selections[2].key = ""
  /\ selections[3] = [name |-> "a", key |-> "u2", inst |-> "a-2"]

(***************************************************************************)
(* C20 - Without a shard key, the j-th selection (j = 0, 1, 2, ...) for a  *)
(* module with a fixed list of n >= 1 instances returns instances[j mod    *)
(* n]: the counter is per module, a selection for one module never         *)
(* advances another module's counter, and over any n consecutive           *)
(* selections each instance is chosen exactly once.                        *)
(***************************************************************************)
\* the positions of the keyless selections for the module among the first k
KeylessOf(sel, name, k) == {j \in 1..k : sel[j].name = name /\ sel[j].key = ""}

C20_RoundRobinVisitsInTurn ==
  [][(Selected /\ LastSelection.key = "") =>
       LET s == LastSelection
           instances == modules[s.name]
           n == Len(instances)
           j == Cardinality(KeylessOf(selections, s.name, Len(selections)))
           mine == KeylessOf(selections', s.name, Len(selections'))
       IN /\ s.inst = instances[(j % n) + 1]
          /\ \A m \in ModuleNames \ {s.name} : roundRobinCounters'[m] = roundRobinCounters[m]
          /\ j + 1 >= n =>
               LET window == {p \in mine : Cardinality({q \in mine : q >= p}) <= n}
               IN \A i \in Range(instances) :
                    Cardinality({p \in window : selections'[p].inst = i}) = 1]_vars

\* with three instances of "a": four keyless selections for "a" went to a-0,
\* a-1, a-2 and a-0 again
C20_Witness ==
  /\ Len(modules["a"]) = 3
  /\ Len(selections) = 4
  /\ \A k \in 1..4 : selections[k].name = "a" /\ selections[k].key = ""
  /\ selections[1].inst = "a-0" /\ selections[2].inst = "a-1"
  /\ selections[3].inst = "a-2" /\ selections[4].inst = "a-0"

(***************************************************************************)
(* C21 - For a module whose manifest disables multi-instance spawning,     *)
(* loadModule spawns exactly one instance for every configured instance    *)
(* count.                                                                  *)
(***************************************************************************)
C21_SingleInstanceWhenDisabled ==
  pc = "running" =>
    \A n \in Range(sorted) :
      ~manifests[n].multiInstanceSpawning => Len(modules[n]) = 1

\* "a" forbids multi-instance spawning, three instances were asked for, and
\* one was forked
C21_Witness ==
  /\ pc = "running"
  /\ ~manifests["a"].multiInstanceSpawning
  /\ loadBalancingConfig["a"] = 3
  /\ modules["a"] = <<"a-0">>

(***************************************************************************)
(* C22 - For a module that supports multi-instance spawning, the number of *)
(* instances spawned is max(1, configured count) for every integer         *)
(* configured count (absent, zero, negative or positive), so every loaded  *)
(* module has an instance list of length at least 1.                       *)
(***************************************************************************)
Max(x, y) == IF x >= y THEN x ELSE y

C22_InstanceCountAtLeastOne ==
  pc = "running" =>
    \A n \in Range(sorted) :
      manifests[n].multiInstanceSpawning =>
        /\ Len(modules[n]) = Max(1, loadBalancingConfig[n])
        /\ Len(modules[n]) >= 1

(***************************************************************************)
(* C23 - The deadline armed for an HTTP request to a module is 30 s if and *)
(* only if the request's Content-Type is multipart/form-data, and 5 s for  *)
(* every other request.                                                    *)
(***************************************************************************)
C23_MultipartGetsLongDeadline ==
  [][\A r \in Reqs, name \in ModuleNames, shardKey \in ShardKeys \cup {""},
       ct \in ContentTypes :
       (HttpRequest(r, name, "/p", shardKey, ct) /\ http'[r].st = "pending") =>
         http'[r].deadline =
           now + (IF ct = "multipart/form-data" THEN MultipartTimeoutMs ELSE HttpTimeoutMs)]_vars

(***************************************************************************)
(* C24 - POST /auth/verify answers 200 with the identity if and only if    *)
(* the bearer token verifies against the server secret and is the stored   *)
(* lastToken of some user; in every other case it answers 401 invalidToken.*)
(***************************************************************************)
Holders(token) == {u \in Users : db.lastToken[u] = token}

C24_VerifyAnswers200IffTokenValidAndStored ==
  \A k \in ApiSlots :
    (api[k].st = "done" /\ api[k].kind = "verify") =>
      LET header == api[k].header
          sent == IF Len(header) = 2 THEN header[2] ELSE ""
          valid == sent \in {"t1", "t2"} /\ Holders(sent) # {}
      IN IF valid
         THEN api[k].status = 200 /\ api[k].body \in Holders(sent)
         ELSE api[k].status = 401 /\ api[k].body = "invalidToken"

\* one request with the token bob holds was answered 200 with bob, and one with
\* a token that verifies but that nobody holds was answered 401
C24_Witness ==
  /\ db.lastToken = [admin |-> "", bob |-> "t1"]
  /\ api[1] = [st |-> "done", kind |-> "verify", header |-> <<"Bearer", "t1">>,
               status |-> 200, body |-> "bob"]
  /\ api[2] = [st |-> "done", kind |-> "verify", header |-> <<"Bearer", "t2">>,
               status |-> 401, body |-> "invalidToken"]

(***************************************************************************)
(* C25 - Repeating grantPermissions(u, [p]) twice leaves exactly one row   *)
(* (u, p) in userPermissions, whether the two calls run one after the      *)
(* other or overlap in time.                                               *)
(***************************************************************************)
C25_GrantTwiceLeavesOneRow ==
  \A u \in Users, p \in Perms :
    (\A k \in ApiSlots :
       api[k].st = "done" /\ api[k].kind = "grant" /\ api[k].userId = u /\ api[k].permission = p)
      => db.userPermissions[<<u, p>>] = 1

(***************************************************************************)
(* C26 - If two scanned module directories carry manifests with the same   *)
(* name, boot fails fatally; a manifest is never silently replaced by a    *)
(* later one with the same name.                                           *)
(***************************************************************************)
SameName(i, j) ==
  /\ i # j
  /\ moduleList[i].file.valid
  /\ moduleList[j].file.valid
  /\ moduleList[i].file.name = moduleList[j].file.name

C26_DuplicateNameIsFatal ==
  (pc # "init" /\ \E i, j \in 1..Len(moduleList) : SameName(i, j)) =>
    pc = "exited" /\ exitCode # 0

(***************************************************************************)
(* C27 - A module whose manifest.json is malformed or whose entry file is  *)
(* missing is skipped with a warning, and every other module is still      *)
(* loaded: one bad module never aborts loadAllModules or prevents the      *)
(* loading of the others.  Stated for scans in which no two manifests      *)
(* carry the same name.                                                    *)
(***************************************************************************)
C27_BadModuleIsSkippedOthersLoad ==
  (pc # "init" /\ moduleList # <<>> /\ ~\E i, j \in 1..Len(moduleList) : SameName(i, j)) =>
    /\ pc = "running"
    /\ \A k \in 1..Len(moduleList) :
         LET dir == moduleList[k] IN
         IF dir.file.valid /\ dir.entry
         THEN dir.file.name \in modulesVm
         ELSE dir.file.valid => dir.file.name \notin modulesVm

(***************************************************************************)
(* C28 - On every new WebSocket connection the hub emits clientConnect     *)
(* with the new clientId to the modules and creates an online-player       *)
(* record with loggedIn=false; on connection close it emits                *)
(* clientDisconnect and removes the client from both indices and its       *)
(* online-player record, so no online-player record exists for a client    *)
(* that is not connected.                                                  *)
(***************************************************************************)
ClientEvent(type, c) == [type |-> type, clientId |-> c]

C28_ConnectionsAreAnnouncedAndRecorded ==
  /\ [][\A c \in Clients :
          /\ WsConnect(c) =>
                /\ clientEvents' = Append(clientEvents, ClientEvent("clientConnect", c))
                /\ c \in DOMAIN onlinePlayersMap'
                /\ ~onlinePlayersMap'[c].loggedIn
          /\ WsOnClose(c) =>
                /\ clientEvents' = Append(clientEvents, ClientEvent("clientDisconnect", c))
                /\ c \notin Range(wsOnlineClients')
                /\ c \notin clientsById'
                /\ c \notin DOMAIN onlinePlayersMap']_vars
  /\ [](DOMAIN onlinePlayersMap \subseteq clientsById)

(***************************************************************************)
(* C29 - Instance cleanup is idempotent: the exit, close, error and        *)
(* disconnect events of one instance all run the same cleanup, and every   *)
(* run after the first changes nothing (no instance is removed from        *)
(* modules and no command is deleted from wsCommandRegistry), whatever     *)
(* events of other instances were processed in between.  Stated for an     *)
(* instance that has emitted exit, close or disconnect before, so that     *)
(* its cleanup has run.                                                    *)
(***************************************************************************)
CleanedUp(i) == i \in forked /\ procState[i] # "running"

C29_CleanupIsIdempotent ==
  [][\A i \in Instances : \A ev \in ProcessEvents :
       (CleanedUp(i) /\ ProcessEvent(i, ev))
         => /\ modules' = modules
            /\ wsCommandRegistry' = wsCommandRegistry]_vars

(***************************************************************************)
(* C30 - A WebSocket frame whose command is not a string, or names no      *)
(* registered command, or names a module that is not loaded, is dropped:   *)
(* no module handler is invoked, no reply handler or timer is registered,  *)
(* no frame is sent to any client, and the hub and registry state are      *)
(* unchanged.                                                              *)
(***************************************************************************)
ModulePart(command) == Split(command, ".")[1]

Invalid(command) ==
  \/ command = NotAString
  \/ command \notin DOMAIN wsCommandRegistryVm
  \/ ModulePart(command) \notin modulesVm

C30_InvalidFrameIsDropped ==
  [][\A w \in WsReqs, c \in Clients, command \in FrameCommands :
       (Invalid(command) /\ WsMessage(w, c, command, "", "", "", "undefined")) =>
          /\ wsReq'[w].rpc = "none"
          /\ ~wsReq'[w].listening
          /\ ~wsReq'[w].timer
          /\ \A v \in WsReqs \ {w} : wsReq'[v] = wsReq[v]
          /\ UNCHANGED <<wsFrames, modulesVm, handlersVm, executedVm, wsCommandRegistryVm,
                         wsOnlineClients, clientsById, readyState>>]_vars

\* with module a loaded and its command registered, one frame was dropped and
\* the handler of a was invoked for another
C30_Witness ==
  /\ "a" \in modulesVm
  /\ "a.c" \in DOMAIN wsCommandRegistryVm
  /\ wsReq[1].st = "dropped"
  /\ wsReq[2].rpc = "running"

(***************************************************************************)
(* C31 - Every databaseQuery message that carries an id and comes from an  *)
(* instance that stays alive is answered with exactly one message,         *)
(* databaseResult on success or databaseError on failure, carrying the     *)
(* same id and delivered to the instance that sent the query, never to a   *)
(* sibling instance; a databaseQuery without an id gets no answer.  An     *)
(* instance is alive while no exit, close, error or disconnect of it has   *)
(* run the cleanup, that is while it is in the list of its module.         *)
(***************************************************************************)
Alive(i) == i \in Range(modules[ModuleOf(i)])

DbAnswers(i, id) ==
  {n \in 1..Len(mpcInbox[i]) :
     mpcInbox[i][n].type \in {"databaseResult", "databaseError"} /\ mpcInbox[i][n].id = id}

C31_QueryAnsweredOnceToSender ==
  /\ [][\A k \in ApiSlots, ok \in BOOLEAN :
          (QuerySettled(k, ok) /\ Alive(api[k].from)) =>
             mpcInbox' = [mpcInbox EXCEPT ![api[k].from] =
                            Append(@, [type |-> IF ok THEN "databaseResult" ELSE "databaseError",
                                       id |-> api[k].id,
                                       payload |-> IF ok THEN "result" ELSE "err.message"])]]_vars
  /\ [](\A k \in ApiSlots : \A i \in Instances :
          /\ DbAnswers(i, 0) = {}
          /\ Cardinality(DbAnswers(i, k)) <= 1
          /\ DbAnswers(i, k) # {} => api[k].st = "done" /\ api[k].from = i)

\* a-0, whose sibling a-1 is alive, got the result of its query, and a query
\* without an id is done
C31_Witness ==
  /\ api[1] = [st |-> "done", kind |-> "query", from |-> "a-0", id |-> 1]
  /\ api[2] = [st |-> "done", kind |-> "query", from |-> "a-1", id |-> 0]
  /\ mpcInbox["a-0"] = <<[type |-> "databaseResult", id |-> 1, payload |-> "result"]>>
  /\ mpcInbox["a-1"] = <<>>
  /\ modules["a"] = <<"a-0", "a-1">>

(***************************************************************************)
(* C32 - dependencyTopologicalSort terminates the process with the         *)
(* 'Circular dependency detected' error only if the dependency graph of    *)
(* the manifests actually contains a cycle; a module that was skipped for  *)
(* an unresolved dependency and is visited again does not trigger it.      *)
(***************************************************************************)
C32_CycleErrorOnlyForCycles ==
  (pc = "exited" /\ exitError = "Circular dependency detected") => HasCycle

(***************************************************************************)
(* C33 - In a multi-instance module, an invoke is sent only to an instance *)
(* that has itself already sent its register message: a request arriving   *)
(* after instance 0 registered the route but before instance 1 registered  *)
(* is never dispatched to instance 1.  Every register message of an        *)
(* instance installs one router, so while one router of a module is        *)
(* installed at most one of its instances has registered, and invokes can  *)
(* have gone to one instance at most.                                      *)
(***************************************************************************)
RoutersOf(name) == {k \in 1..Len(appRouters) : appRouters[k].name = name}
InvokedOf(name) == {v.to : v \in {x \in invokes : ModuleOf(x.to) = name}}

C33_InvokeOnlyToRegisteredInstance ==
  \A name \in ModuleNames :
    Cardinality(RoutersOf(name)) = 1 => Cardinality(InvokedOf(name)) <= 1

(***************************************************************************)
(* C34 - For one inbound WebSocket frame, each client receives at most one *)
(* reply frame carrying that frame's id, including when the module's rpc   *)
(* handler both calls reply(id, ...) and returns a value other than        *)
(* undefined.                                                              *)
(***************************************************************************)
SendsTo(w, c) == {n \in 1..Len(wsFrames[w]) : c \in Range(wsFrames[w][n])}

C34_OneReplyFramePerClient ==
  \A w \in WsReqs, c \in Clients : Cardinality(SendsTo(w, c)) <= 1

(***************************************************************************)
(* C35 - The cleanup or unload of module M removes from wsCommandRegistry  *)
(* only entries whose moduleName is M; the commands of every other module, *)
(* including a module whose name has M's name followed by a dot as a       *)
(* prefix, are left unchanged.                                             *)
(***************************************************************************)
C35_CleanupKeepsOtherModulesCommands ==
  [][\A i \in Instances : \A ev \in ProcessEvents :
       ProcessEvent(i, ev) =>
         \A key \in DOMAIN wsCommandRegistry :
           wsCommandRegistry[key].moduleName # ModuleOf(i) =>
             /\ key \in DOMAIN wsCommandRegistry'
             /\ wsCommandRegistry'[key] = wsCommandRegistry[key]]_vars

(***************************************************************************)
(* C36 - If a module's entry code throws while it is being loaded, the     *)
(* load has no lasting effect: the module is not in modules, and no        *)
(* command registered by that module before the throw remains in           *)
(* wsCommandRegistry.                                                      *)
(***************************************************************************)
C36_FailedLoadLeavesNothing ==
  [][\A scripts \in [ModuleNames -> Scripts] :
       VmLoadAllModules(scripts) =>
         \A m \in Range(sorted') :
           scripts[m].throws =>
             /\ m \notin modulesVm'
             /\ \A key \in DOMAIN wsCommandRegistryVm' :
                  wsCommandRegistryVm'[key].moduleName # m]_vars

(***************************************************************************)
(* C37 - The hub never calls send on a socket that is not open: on every   *)
(* delivery path a client whose socket has closed before the reply         *)
(* arrives is skipped.                                                     *)
(***************************************************************************)
C37_SendOnlyOnOpenSockets ==
  [][\A w \in WsReqs :
       ReplySent(w) => \A c \in Range(LastSend(w)) : readyState[c] = "open"]_vars

\* the answered requests of one kind
Answered(kind) == {k \in DOMAIN api : api[k].st = "done" /\ api[k].kind = kind}

\* C38: of the /auth/register requests with one username at most one is
\* answered 200 ok, the row of that username exists afterwards, and a request
\* whose insert created no account is not answered 200 ok with a token.
C38_OneRegistrationWinsPerUsername ==
  \A k \in Answered("register") :
    api[k].status = 200 =>
      /\ api[k].created
      /\ api[k].username \in db.users
      /\ \A j \in Answered("register") \ {k} :
           api[j].username = api[k].username => api[j].status # 200

\* /auth/verify and the auth middleware accept the token
Accepted(token) == jwtVerify(token) /\ userByToken(db, token) # "null"

\* C39: at most one token per user is accepted; the token of a successful
\* logout is rejected from then on; and when a login of a user succeeds, the
\* token issued by an earlier successful login of that user is rejected.
C39_OneAcceptedTokenPerUser ==
  /\ [](\A u \in Users :
          Cardinality({t \in SignedTokens : Accepted(t) /\ userByToken(db, t) = u}) <= 1)
  /\ [](\A k \in Answered("logout") : api[k].status = 200 => ~Accepted(api[k].token))
  /\ [][\A k \in DOMAIN api :
          LoginUpdate(k) =>
            \A j \in Answered("login") :
              (api[j].status = 200 /\ api[j].username = api[k].username)
                => ~Accepted(api[j].token)']_vars

\* the user has the superuser permission
HasSuperuser(user) == db.userPermissions[<<user, "superuser">>] > 0

\* a request to /grant or /ungrant whose caller has none of the
\* permission-management permissions
Unprivileged(call) ==
  /\ call.st # "idle"
  /\ call.kind \in {"grant", "ungrant"}
  /\ ~call.managing

====
